---------------------------- MODULE Spec2Model ----------------------------
(***************************************************************************)
(* Voting application: voter, poll and votes services over a key-value     *)
(* document store, the in-memory voter list, and the vote recording        *)
(* workflow of the votes service.                                          *)
(*                                                                         *)
(* A Go slice is modelled by the sequence of its elements: a nil slice and *)
(* an empty slice are both << >> (they behave alike under len, range and   *)
(* append and differ only in their JSON rendering, null against []).       *)
(* time.Time values are modelled by an integer instant; time.Now() is an   *)
(* input of the environment.  The document store is taken to be up: its    *)
(* own transport errors are not modelled, those of the HTTP calls between  *)
(* the services are.                                                       *)
(***************************************************************************)
EXTENDS Naturals, Sequences, FiniteSets

\* ------------------------------------------------------------ bounds
MaxVoterID == 2
MaxPollID == 1
MaxOptionID == 2
MaxVoteID == 2
MaxDate == 2
\* the voters of the voting application's runs
MaxAppVoterID == 1
\* the longest history or option list of an entity handed to a store directly
MaxSliceLen == 2

VoterIDs == 1..MaxVoterID
\* poll ids include 0, the zero value of uint, which ParseUint accepts
PollIDs == 0..MaxPollID
OptionIDs == 1..MaxOptionID
VoteIDs == 1..MaxVoteID
Dates == 1..MaxDate
FirstNames == {"Nisarg", "Anish"}
LastNames == {"Patel"}
PollTitles == {"Tea or Coffee", "Favourite Sport"}
PollQuestions == {"Do you like Tea or Coffee?"}
OptionTexts == {"Tea", "Coffee"}

\* ------------------------------------------------------------ HTTP statuses
StatusOK == 200
StatusBadRequest == 400
StatusNotFound == 404
StatusConflict == 409
StatusInternalServerError == 500

VARIABLES
    backend,     \* the deployment that takes the requests: "memory" the voter
                 \* service over its map, "redis" the voter and votes services
                 \* over the document store, "poll" the poll service, "votes"
                 \* the vote store alone, "todo" the todo tool
    Voters,      \* VoterList.Voters of the in-memory voter service
    voterRedis,  \* documents of the voter service, by key
    pollRedis,   \* documents of the poll service, by key
    votesRedis,  \* documents of the votes service, by key
    resp,        \* the last call and its outcome, as its caller sees it
    va,          \* the votes service's VotesAPI: totalCalls, errorCalls and
                 \* totalRequestTime
    served,      \* the requests the votes service has answered since boot and
                 \* how many of them with a status of 400 or more
    dbFile,      \* the content of the todo tool's database file
    toDoMap,     \* ToDo.toDoMap of the todo tool's handle
    running      \* the calls that run side by side, by caller: where each
                 \* stands in its code and the locals it holds

counterVars == <<va, served>>
todoVars == <<dbFile, toDoMap>>
vars ==
    <<backend, Voters, voterRedis, pollRedis, votesRedis, resp, va, served, dbFile, toDoMap,
      running>>

\* ------------------------------------------------------------ helpers
Range(s) == {s[i] : i \in DOMAIN s}

\* the entries of history h whose PollID is not pollID, in order
RECURSIVE WithoutPoll(_, _)
WithoutPoll(h, pollID) ==
    IF h = << >> THEN << >>
    ELSE IF Head(h).PollID # pollID
         THEN <<Head(h)>> \o WithoutPoll(Tail(h), pollID)
         ELSE WithoutPoll(Tail(h), pollID)

\* the options of opts whose PollOptionID is not pollOptionID, in order
RECURSIVE WithoutOption(_, _)
WithoutOption(opts, pollOptionID) ==
    IF opts = << >> THEN << >>
    ELSE IF Head(opts).PollOptionID # pollOptionID
         THEN <<Head(opts)>> \o WithoutOption(Tail(opts), pollOptionID)
         ELSE WithoutOption(Tail(opts), pollOptionID)

\* the store with no key
EmptyStore == [x \in {} |-> 0]

\* m without key k
Remove(m, k) == [x \in DOMAIN m \ {k} |-> m[x]]

\* m with key k set to v
Put(m, k, v) == [x \in DOMAIN m \cup {k} |-> IF x = k THEN v ELSE m[x]]

\* all sequences over S of length at most n
SeqUpTo(S, n) == UNION {[1..k -> S] : k \in 0..n}

\* the orders in which the keys S can be gone through, each key once: a Go map
\* range and the reply of KEYS fix no order
Orders(S) ==
    {ks \in [1..Cardinality(S) -> S] : \A i, j \in DOMAIN ks : ks[i] = ks[j] => i = j}

\* ------------------------------------------------------------ voter values
ZeroVoter == [VoterID |-> 0, FirstName |-> "", LastName |-> "", VoteHistory |-> << >>]
ZeroVoterPoll == [PollID |-> 0, VoteDate |-> 0]

NewVoter(id, firstName, lastName) ==
    [VoterID |-> id, FirstName |-> firstName, LastName |-> lastName,
     VoteHistory |-> << >>]

\* encoding/json of a Voter by its field tags, and back
MarshalVoterPoll(p) == [pollId |-> p.PollID, voteDate |-> p.VoteDate]
UnmarshalVoterPoll(d) == [PollID |-> d.pollId, VoteDate |-> d.voteDate]

\* an encoding that loses the history (what C9 rules out)
MarshalVoter_DropsHistory(v) ==
    [voterId |-> v.VoterID, firstName |-> v.FirstName, lastName |-> v.LastName,
     voteHistory |-> << >>]

MarshalVoter(v) ==
    [voterId |-> v.VoterID, firstName |-> v.FirstName, lastName |-> v.LastName,
     voteHistory |-> [i \in DOMAIN v.VoteHistory |-> MarshalVoterPoll(v.VoteHistory[i])]]

UnmarshalVoter(d) ==
    [VoterID |-> d.voterId, FirstName |-> d.firstName, LastName |-> d.lastName,
     VoteHistory |-> [i \in DOMAIN d.voteHistory |-> UnmarshalVoterPoll(d.voteHistory[i])]]

\* ------------------------------------------------------------ voter store, document backend
\* Each operation takes the documents r and returns the documents after it
\* (store), whether it failed (err) and what it returned.
VoterKey(id) == <<"voter:", id>>

VoterCache_getItemFromRedis(r, key) ==
    IF key \in DOMAIN r
    THEN [err |-> FALSE, voter |-> UnmarshalVoter(r[key])]
    ELSE [err |-> TRUE, voter |-> ZeroVoter]

VoterCache_GetAllVoters(r) ==
    {VoterCache_getItemFromRedis(r, key).voter : key \in DOMAIN r}

\* the slices GetAllVoters can return, one for each order of the keys
VoterCache_GetAllVoters_Results(r) ==
    {[i \in DOMAIN keys |-> VoterCache_getItemFromRedis(r, keys[i]).voter] :
        keys \in Orders(DOMAIN r)}

VoterCache_GetVoter(r, voterID) ==
    LET got == VoterCache_getItemFromRedis(r, VoterKey(voterID))
    IN  IF got.err THEN [err |-> TRUE, voter |-> ZeroVoter] ELSE got

VoterCache_AddVoter(r, voter) ==
    IF ~VoterCache_GetVoter(r, voter.VoterID).err
    THEN [store |-> r, err |-> TRUE]
    ELSE [store |-> Put(r, VoterKey(voter.VoterID), MarshalVoter(voter)), err |-> FALSE]

\* UpdateVoter that stores the supplied voter whole (what C13 rules out)
VoterCache_UpdateVoter_ReplacesAll(r, voter) ==
    LET got == VoterCache_GetVoter(r, voter.VoterID)
    IN  IF got.err
        THEN [store |-> r, err |-> TRUE, voter |-> ZeroVoter]
        ELSE [store |-> Put(r, VoterKey(voter.VoterID), MarshalVoter(voter)),
              err |-> FALSE, voter |-> voter]

VoterCache_UpdateVoter(r, voter) ==
    LET got == VoterCache_GetVoter(r, voter.VoterID)
        existingVoter == [got.voter EXCEPT !.FirstName = voter.FirstName,
                                           !.LastName = voter.LastName]
    IN  IF got.err
        THEN [store |-> r, err |-> TRUE, voter |-> ZeroVoter]
        ELSE [store |-> Put(r, VoterKey(voter.VoterID), MarshalVoter(existingVoter)),
              err |-> FALSE, voter |-> existingVoter]

\* DeleteAllVoters that deletes no key (what C15 rules out)
VoterCache_DeleteAllVoters_DeletesNone(r) ==
    [store |-> r, err |-> FALSE]

VoterCache_DeleteAllVoters(r) ==
    [store |-> EmptyStore, err |-> FALSE]

\* DeleteVoter that drops every key (what C11 rules out)
VoterCache_DeleteVoter_DropsAll(r, voterID) ==
    IF VoterCache_GetVoter(r, voterID).err
    THEN [store |-> r, err |-> TRUE]
    ELSE [store |-> EmptyStore, err |-> FALSE]

VoterCache_DeleteVoter(r, voterID) ==
    IF VoterCache_GetVoter(r, voterID).err
    THEN [store |-> r, err |-> TRUE]
    ELSE [store |-> Remove(r, VoterKey(voterID)), err |-> FALSE]

VoterCache_GetVoterHistory(r, voterID) ==
    LET got == VoterCache_GetVoter(r, voterID)
    IN  IF got.err
        THEN [err |-> TRUE, error |-> "voter does not exist", history |-> << >>]
        ELSE [err |-> FALSE, error |-> "", history |-> got.voter.VoteHistory]

VoterCache_GetVoterPoll(r, voterID, pollID) ==
    LET got == VoterCache_GetVoter(r, voterID)
        h == got.voter.VoteHistory
        hits == {i \in DOMAIN h : h[i].PollID = pollID}
    IN  IF got.err
        THEN [err |-> TRUE, error |-> "voter does not exist", poll |-> ZeroVoterPoll]
        ELSE IF hits = {}
        THEN [err |-> TRUE, error |-> "voter poll not found", poll |-> ZeroVoterPoll]
        ELSE [err |-> FALSE, error |-> "",
              poll |-> h[CHOOSE i \in hits : \A j \in hits : i <= j]]

\* AddVoterPoll that keeps the new entry only (what C8 rules out)
VoterCache_AddVoterPoll_Replaces(r, voterID, pollID, voteDate) ==
    LET got == VoterCache_GetVoter(r, voterID)
        h == got.voter.VoteHistory
        newVoterPoll == [PollID |-> pollID, VoteDate |-> voteDate]
        voter == [got.voter EXCEPT !.VoteHistory = <<newVoterPoll>>]
    IN  IF got.err \/ (\E i \in DOMAIN h : h[i].PollID = pollID)
        THEN [store |-> r, err |-> TRUE, poll |-> ZeroVoterPoll]
        ELSE [store |-> Put(r, VoterKey(voter.VoterID), MarshalVoter(voter)),
              err |-> FALSE, poll |-> newVoterPoll]

VoterCache_AddVoterPoll(r, voterID, pollID, voteDate) ==
    LET got == VoterCache_GetVoter(r, voterID)
        h == got.voter.VoteHistory
        newVoterPoll == [PollID |-> pollID, VoteDate |-> voteDate]
        voter == [got.voter EXCEPT !.VoteHistory = Append(h, newVoterPoll)]
    IN  IF got.err
        THEN [store |-> r, err |-> TRUE, error |-> "voter does not exist",
              poll |-> ZeroVoterPoll]
        ELSE IF \E i \in DOMAIN h : h[i].PollID = pollID
        THEN [store |-> r, err |-> TRUE, error |-> "voter has already voted in this poll",
              poll |-> ZeroVoterPoll]
        ELSE [store |-> Put(r, VoterKey(voter.VoterID), MarshalVoter(voter)),
              err |-> FALSE, error |-> "", poll |-> newVoterPoll]

VoterCache_UpdateVoterPoll(r, voterID, pollID, voteDate) ==
    LET got == VoterCache_GetVoter(r, voterID)
        h == got.voter.VoteHistory
        hits == {i \in DOMAIN h : h[i].PollID = pollID}
        first == CHOOSE i \in hits : \A j \in hits : i <= j
        updatedVoterPoll ==
            IF hits = {} THEN ZeroVoterPoll
            ELSE [PollID |-> pollID, VoteDate |-> voteDate]
        voter ==
            IF hits = {} THEN got.voter
            ELSE [got.voter EXCEPT !.VoteHistory[first] = updatedVoterPoll]
    IN  IF got.err
        THEN [store |-> r, err |-> TRUE, error |-> "voter does not exist",
              poll |-> ZeroVoterPoll]
        ELSE IF updatedVoterPoll.PollID = 0
        THEN [store |-> r, err |-> TRUE, error |-> "voter poll not found",
              poll |-> ZeroVoterPoll]
        ELSE [store |-> Put(r, VoterKey(voter.VoterID), MarshalVoter(voter)),
              err |-> FALSE, error |-> "", poll |-> updatedVoterPoll]

\* DeleteVoterPoll that never writes the shortened history back (what C6 rules out)
VoterCache_DeleteVoterPoll_NoWrite(r, voterID, pollID) ==
    LET got == VoterCache_GetVoter(r, voterID)
        h == got.voter.VoteHistory
    IN  [store |-> r, err |-> got.err \/ Len(WithoutPoll(h, pollID)) = Len(h)]

VoterCache_DeleteVoterPoll(r, voterID, pollID) ==
    LET got == VoterCache_GetVoter(r, voterID)
        h == got.voter.VoteHistory
        updatedVoteHistory == WithoutPoll(h, pollID)
        voter == [got.voter EXCEPT !.VoteHistory = updatedVoteHistory]
    IN  IF got.err
        THEN [store |-> r, err |-> TRUE, error |-> "voter does not exist"]
        ELSE IF Len(updatedVoteHistory) = Len(h)
        THEN [store |-> r, err |-> TRUE, error |-> "voter poll not found"]
        ELSE [store |-> Put(r, VoterKey(voter.VoterID), MarshalVoter(voter)),
              err |-> FALSE, error |-> ""]

\* ------------------------------------------------------------ voter store, in-memory backend
\* Each operation takes the map m (VoterList.Voters) and returns the map after it.
VoterList_GetAllVoters(m) == {m[id] : id \in DOMAIN m}

\* the slices GetAllVoters can return, one for each order of the map's range
VoterList_GetAllVoters_Results(m) ==
    {[i \in DOMAIN keys |-> m[keys[i]]] : keys \in Orders(DOMAIN m)}

VoterList_GetVoter(m, voterID) ==
    IF voterID \in DOMAIN m
    THEN [err |-> FALSE, voter |-> m[voterID]]
    ELSE [err |-> TRUE, voter |-> ZeroVoter]

VoterList_AddVoter(m, voter) ==
    IF voter.VoterID \in DOMAIN m
    THEN [store |-> m, err |-> TRUE]
    ELSE [store |-> Put(m, voter.VoterID, voter), err |-> FALSE]

\* UpdateVoter that creates the voter it does not find (what C12 rules out)
VoterList_UpdateVoter_Upserts(m, voter) ==
    [store |-> Put(m, voter.VoterID, voter), err |-> voter.VoterID \notin DOMAIN m]

VoterList_UpdateVoter(m, voter) ==
    IF voter.VoterID \notin DOMAIN m
    THEN [store |-> m, err |-> TRUE]
    ELSE [store |-> Put(m, voter.VoterID,
                        [m[voter.VoterID] EXCEPT !.FirstName = voter.FirstName,
                                                 !.LastName = voter.LastName]),
          err |-> FALSE]

VoterList_DeleteAllVoters(m) ==
    [store |-> EmptyStore, err |-> FALSE]

VoterList_DeleteVoter(m, voterID) ==
    IF voterID \notin DOMAIN m
    THEN [store |-> m, err |-> TRUE]
    ELSE [store |-> Remove(m, voterID), err |-> FALSE]

VoterList_GetVoterHistory(m, voterID) ==
    IF voterID \notin DOMAIN m
    THEN [err |-> TRUE, error |-> "voter does not exist", history |-> << >>]
    ELSE [err |-> FALSE, error |-> "", history |-> m[voterID].VoteHistory]

VoterList_GetVoterPoll(m, voterID, pollID) ==
    LET h == m[voterID].VoteHistory
        hits == {i \in DOMAIN h : h[i].PollID = pollID}
    IN  IF voterID \notin DOMAIN m
        THEN [err |-> TRUE, error |-> "voter does not exist", poll |-> ZeroVoterPoll]
        ELSE IF hits = {}
        THEN [err |-> TRUE, error |-> "voter poll not found", poll |-> ZeroVoterPoll]
        ELSE [err |-> FALSE, error |-> "",
              poll |-> h[CHOOSE i \in hits : \A j \in hits : i <= j]]

\* AddVoterPoll without the test for an existing entry (what C7 rules out)
VoterList_AddVoterPoll_NoCheck(m, voterID, pollID, now) ==
    LET h == m[voterID].VoteHistory
        newVoterPoll == [PollID |-> pollID, VoteDate |-> now]
    IN  IF voterID \notin DOMAIN m
        THEN [store |-> m, err |-> TRUE, poll |-> ZeroVoterPoll]
        ELSE [store |-> Put(m, voterID, [m[voterID] EXCEPT !.VoteHistory = Append(h, newVoterPoll)]),
              err |-> FALSE, poll |-> newVoterPoll]

VoterList_AddVoterPoll(m, voterID, pollID, now) ==
    LET h == m[voterID].VoteHistory
        newVoterPoll == [PollID |-> pollID, VoteDate |-> now]
    IN  IF voterID \notin DOMAIN m
        THEN [store |-> m, err |-> TRUE, error |-> "voter does not exist",
              poll |-> ZeroVoterPoll]
        ELSE IF \E i \in DOMAIN h : h[i].PollID = pollID
        THEN [store |-> m, err |-> TRUE, error |-> "voter has already voted in this poll",
              poll |-> ZeroVoterPoll]
        ELSE [store |-> Put(m, voterID, [m[voterID] EXCEPT !.VoteHistory = Append(h, newVoterPoll)]),
              err |-> FALSE, error |-> "", poll |-> newVoterPoll]

\* voter is a copy of the map's value whose VoteHistory shares its backing
\* array with the stored one: the assignment to voter.VoteHistory[i] (line 178)
\* is a write to the stored history, made before the not-found test of line 183.
VoterList_UpdateVoterPoll(m, voterID, pollID, now) ==
    LET h == m[voterID].VoteHistory
        hits == {i \in DOMAIN h : h[i].PollID = pollID}
        first == CHOOSE i \in hits : \A j \in hits : i <= j
        updatedVoterPoll ==
            IF hits = {} THEN ZeroVoterPoll
            ELSE [PollID |-> pollID, VoteDate |-> now]
        written ==
            IF hits = {} THEN m
            ELSE Put(m, voterID, [m[voterID] EXCEPT !.VoteHistory[first] = updatedVoterPoll])
    IN  IF voterID \notin DOMAIN m
        THEN [store |-> m, err |-> TRUE, error |-> "voter does not exist",
              poll |-> ZeroVoterPoll]
        ELSE IF updatedVoterPoll.PollID = 0
        THEN [store |-> written, err |-> TRUE, error |-> "voter poll not found",
              poll |-> ZeroVoterPoll]
        ELSE [store |-> written, err |-> FALSE, error |-> "", poll |-> updatedVoterPoll]

VoterList_DeleteVoterPoll(m, voterID, pollID) ==
    LET h == m[voterID].VoteHistory
        updatedVoteHistory == WithoutPoll(h, pollID)
    IN  IF voterID \notin DOMAIN m
        THEN [store |-> m, err |-> TRUE, error |-> "voter does not exist"]
        ELSE IF Len(updatedVoteHistory) = Len(h)
        THEN [store |-> m, err |-> TRUE, error |-> "voter poll not found"]
        ELSE [store |-> Put(m, voterID, [m[voterID] EXCEPT !.VoteHistory = updatedVoteHistory]),
              err |-> FALSE, error |-> ""]

\* ------------------------------------------------------------ poll store
ZeroPoll == [PollID |-> 0, PollTitle |-> "", PollQuestion |-> "", PollOptions |-> << >>]
ZeroPollOption == [PollOptionID |-> 0, PollOptionText |-> ""]

NewPoll(pollId, pollTitle, pollQuestion) ==
    [PollID |-> pollId, PollTitle |-> pollTitle, PollQuestion |-> pollQuestion,
     PollOptions |-> << >>]

MarshalPollOption(o) == [pollOptionId |-> o.PollOptionID, pollOptionText |-> o.PollOptionText]
UnmarshalPollOption(d) == [PollOptionID |-> d.pollOptionId, PollOptionText |-> d.pollOptionText]

MarshalPoll(p) ==
    [pollId |-> p.PollID, pollTitle |-> p.PollTitle, pollQuestion |-> p.PollQuestion,
     pollOptions |-> [i \in DOMAIN p.PollOptions |-> MarshalPollOption(p.PollOptions[i])]]

UnmarshalPoll(d) ==
    [PollID |-> d.pollId, PollTitle |-> d.pollTitle, PollQuestion |-> d.pollQuestion,
     PollOptions |-> [i \in DOMAIN d.pollOptions |-> UnmarshalPollOption(d.pollOptions[i])]]

PollKey(id) == <<"poll:", id>>

PollCache_getItemFromRedis(r, key) ==
    IF key \in DOMAIN r
    THEN [err |-> FALSE, poll |-> UnmarshalPoll(r[key])]
    ELSE [err |-> TRUE, poll |-> ZeroPoll]

PollCache_GetAllPolls(r) ==
    {PollCache_getItemFromRedis(r, key).poll : key \in DOMAIN r}

\* the slices GetAllPolls can return, one for each order of the keys
PollCache_GetAllPolls_Results(r) ==
    {[i \in DOMAIN keys |-> PollCache_getItemFromRedis(r, keys[i]).poll] :
        keys \in Orders(DOMAIN r)}

PollCache_GetPoll(r, pollID) ==
    LET got == PollCache_getItemFromRedis(r, PollKey(pollID))
    IN  IF got.err THEN [err |-> TRUE, poll |-> ZeroPoll] ELSE got

\* AddPoll that writes before it reports the existing id (what C10 rules out)
PollCache_AddPoll_Overwrites(r, poll) ==
    [store |-> Put(r, PollKey(poll.PollID), MarshalPoll(poll)),
     err |-> ~PollCache_GetPoll(r, poll.PollID).err]

PollCache_AddPoll(r, poll) ==
    IF ~PollCache_GetPoll(r, poll.PollID).err
    THEN [store |-> r, err |-> TRUE]
    ELSE [store |-> Put(r, PollKey(poll.PollID), MarshalPoll(poll)), err |-> FALSE]

PollCache_DeleteAllPolls(r) ==
    [store |-> EmptyStore, err |-> FALSE]

PollCache_DeletePoll(r, pollID) ==
    IF PollCache_GetPoll(r, pollID).err
    THEN [store |-> r, err |-> TRUE]
    ELSE [store |-> Remove(r, PollKey(pollID)), err |-> FALSE]

PollCache_GetPollOptions(r, pollID) ==
    LET got == PollCache_GetPoll(r, pollID)
    IN  IF got.err
        THEN [err |-> TRUE, error |-> "poll does not exist", options |-> << >>]
        ELSE [err |-> FALSE, error |-> "", options |-> got.poll.PollOptions]

PollCache_GetPollOption(r, pollID, pollOptionID) ==
    LET got == PollCache_GetPoll(r, pollID)
        opts == got.poll.PollOptions
        hits == {i \in DOMAIN opts : opts[i].PollOptionID = pollOptionID}
    IN  IF got.err
        THEN [err |-> TRUE, error |-> "poll does not exist", option |-> ZeroPollOption]
        ELSE IF hits = {}
        THEN [err |-> TRUE, error |-> "poll option not found", option |-> ZeroPollOption]
        ELSE [err |-> FALSE, error |-> "",
              option |-> opts[CHOOSE i \in hits : \A j \in hits : i <= j]]

PollCache_AddPollOption(r, pollID, pollOptionID, pollOptionText) ==
    LET got == PollCache_GetPoll(r, pollID)
        opts == got.poll.PollOptions
        newPollOption == [PollOptionID |-> pollOptionID, PollOptionText |-> pollOptionText]
        poll == [got.poll EXCEPT !.PollOptions = Append(opts, newPollOption)]
    IN  IF got.err
        THEN [store |-> r, err |-> TRUE, error |-> "poll does not exist",
              option |-> ZeroPollOption]
        ELSE IF \E i \in DOMAIN opts : opts[i].PollOptionID = pollOptionID
        THEN [store |-> r, err |-> TRUE, error |-> "poll option has already in poll",
              option |-> ZeroPollOption]
        ELSE [store |-> Put(r, PollKey(poll.PollID), MarshalPoll(poll)),
              err |-> FALSE, error |-> "", option |-> newPollOption]

\* DeletePollOption that writes the list back without comparing lengths (what C14 rules out)
PollCache_DeletePollOption_NoLengthTest(r, pollID, pollOptionID) ==
    LET got == PollCache_GetPoll(r, pollID)
        poll == [got.poll EXCEPT !.PollOptions = WithoutOption(got.poll.PollOptions, pollOptionID)]
    IN  IF got.err
        THEN [store |-> r, err |-> TRUE, error |-> "poll does not exist"]
        ELSE [store |-> Put(r, PollKey(poll.PollID), MarshalPoll(poll)),
              err |-> FALSE, error |-> ""]

PollCache_DeletePollOption(r, pollID, pollOptionID) ==
    LET got == PollCache_GetPoll(r, pollID)
        opts == got.poll.PollOptions
        updatedPollOptions == WithoutOption(opts, pollOptionID)
        poll == [got.poll EXCEPT !.PollOptions = updatedPollOptions]
    IN  IF got.err
        THEN [store |-> r, err |-> TRUE, error |-> "poll does not exist"]
        ELSE IF Len(updatedPollOptions) = Len(opts)
        THEN [store |-> r, err |-> TRUE, error |-> "poll option not found"]
        ELSE [store |-> Put(r, PollKey(poll.PollID), MarshalPoll(poll)),
              err |-> FALSE, error |-> ""]

\* ------------------------------------------------------------ votes store
ZeroVote == [VoteID |-> 0, VoterID |-> 0, PollID |-> 0, VoteValue |-> 0]

MarshalVote(v) ==
    [voteId |-> v.VoteID, voterId |-> v.VoterID, pollId |-> v.PollID, voteValue |-> v.VoteValue]

UnmarshalVote(d) ==
    [VoteID |-> d.voteId, VoterID |-> d.voterId, PollID |-> d.pollId, VoteValue |-> d.voteValue]

VoteKey(id) == <<"votes:", id>>

VotesCache_getItemFromRedis(r, key) ==
    IF key \in DOMAIN r
    THEN [err |-> FALSE, vote |-> UnmarshalVote(r[key])]
    ELSE [err |-> TRUE, vote |-> ZeroVote]

VotesCache_GetAllVotes(r) ==
    {VotesCache_getItemFromRedis(r, key).vote : key \in DOMAIN r}

VotesCache_GetVote(r, voteID) ==
    LET got == VotesCache_getItemFromRedis(r, VoteKey(voteID))
    IN  IF got.err THEN [err |-> TRUE, vote |-> ZeroVote] ELSE got

\* AddVote that writes before it reports the existing id (what C5 rules out)
VotesCache_AddVote_Overwrites(r, vote) ==
    [store |-> Put(r, VoteKey(vote.VoteID), MarshalVote(vote)),
     err |-> ~VotesCache_GetVote(r, vote.VoteID).err]

VotesCache_AddVote(r, vote) ==
    IF ~VotesCache_GetVote(r, vote.VoteID).err
    THEN [store |-> r, err |-> TRUE]
    ELSE [store |-> Put(r, VoteKey(vote.VoteID), MarshalVote(vote)), err |-> FALSE]

VotesCache_DeleteVote(r, voteID) ==
    IF VotesCache_GetVote(r, voteID).err
    THEN [store |-> r, err |-> TRUE]
    ELSE [store |-> Remove(r, VoteKey(voteID)), err |-> FALSE]

\* ------------------------------------------------------------ voter service handlers, document backend
\* Each handler takes the store and the request and returns the store as the
\* store operations it calls leave it, with the response (status, body).  Requests are well formed: the ids
\* parse and the body binds.
VoterAPI_ListAllVoters(s) ==
    [store |-> s, status |-> StatusOK,
     body |-> {MarshalVoter(v) : v \in VoterCache_GetAllVoters(s)}]

VoterAPI_GetVoter(s, id) ==
    LET got == VoterCache_GetVoter(s, id)
    IN  IF got.err THEN [store |-> s, status |-> StatusNotFound, body |-> "none"]
        ELSE [store |-> s, status |-> StatusOK, body |-> MarshalVoter(got.voter)]

\* the voter of the body keeps only its names: the id is the path's, the history empty
VoterAPI_AddVoter(s, id, body) ==
    LET newVoter == NewVoter(id, body.FirstName, body.LastName)
        res == VoterCache_AddVoter(s, newVoter)
    IN  IF res.err THEN [store |-> res.store, status |-> StatusInternalServerError, body |-> "none"]
        ELSE [store |-> res.store, status |-> StatusOK, body |-> MarshalVoter(newVoter)]

VoterAPI_UpdateVoter(s, id, body) ==
    LET voter == [body EXCEPT !.VoterID = id]
        res == VoterCache_UpdateVoter(s, voter)
    IN  IF res.err THEN [store |-> res.store, status |-> StatusInternalServerError, body |-> "none"]
        ELSE [store |-> res.store, status |-> StatusOK,
              body |-> MarshalVoter(VoterCache_GetVoter(res.store, id).voter)]

VoterAPI_DeleteAllVoters(s) ==
    LET res == VoterCache_DeleteAllVoters(s)
    IN  IF res.err THEN [store |-> res.store, status |-> StatusNotFound, body |-> "none"]
        ELSE [store |-> res.store, status |-> StatusOK, body |-> "deleted"]

VoterAPI_DeleteVoter(s, id) ==
    LET res == VoterCache_DeleteVoter(s, id)
    IN  IF res.err THEN [store |-> res.store, status |-> StatusNotFound, body |-> "none"]
        ELSE [store |-> res.store, status |-> StatusOK, body |-> "deleted"]

VoterAPI_GetVoterHistory(s, id) ==
    LET got == VoterCache_GetVoterHistory(s, id)
    IN  IF got.err THEN [store |-> s, status |-> StatusNotFound, body |-> "none"]
        ELSE [store |-> s, status |-> StatusOK,
              body |-> [i \in DOMAIN got.history |-> MarshalVoterPoll(got.history[i])]]

VoterAPI_GetVoterPoll(s, id, pollId) ==
    LET got == VoterCache_GetVoterPoll(s, id, pollId)
    IN  IF got.err THEN [store |-> s, status |-> StatusNotFound, body |-> "none"]
        ELSE [store |-> s, status |-> StatusOK, body |-> MarshalVoterPoll(got.poll)]

\* The body is JSON, so GetPostForm finds no voteDate and the date is the
\* service's time.Now(), whatever voteDate the body carries.
VoterAPI_AddVoterPoll(s, id, pollId, now) ==
    LET res == VoterCache_AddVoterPoll(s, id, pollId, now)
    IN  IF res.err THEN [store |-> res.store, status |-> StatusBadRequest, body |-> "none"]
        ELSE [store |-> res.store, status |-> StatusOK, body |-> MarshalVoterPoll(res.poll)]

VoterAPI_UpdateVoterPoll(s, id, pollId, now) ==
    LET res == VoterCache_UpdateVoterPoll(s, id, pollId, now)
    IN  IF res.err THEN [store |-> res.store, status |-> StatusBadRequest, body |-> "none"]
        ELSE [store |-> res.store, status |-> StatusOK, body |-> MarshalVoterPoll(res.poll)]

VoterAPI_DeleteVoterPoll(s, id, pollId) ==
    LET res == VoterCache_DeleteVoterPoll(s, id, pollId)
    IN  IF res.err THEN [store |-> res.store, status |-> StatusNotFound, body |-> "none"]
        ELSE [store |-> res.store, status |-> StatusOK, body |-> "deleted"]

\* ------------------------------------------------------------ voter service handlers, in-memory backend
MemVoterAPI_ListAllVoters(s) ==
    [store |-> s, status |-> StatusOK,
     body |-> {MarshalVoter(v) : v \in VoterList_GetAllVoters(s)}]

MemVoterAPI_GetVoter(s, id) ==
    LET got == VoterList_GetVoter(s, id)
    IN  IF got.err THEN [store |-> s, status |-> StatusNotFound, body |-> "none"]
        ELSE [store |-> s, status |-> StatusOK, body |-> MarshalVoter(got.voter)]

\* the voter of the body keeps only its names: the id is the path's, the history empty
MemVoterAPI_AddVoter(s, id, body) ==
    LET newVoter == NewVoter(id, body.FirstName, body.LastName)
        res == VoterList_AddVoter(s, newVoter)
    IN  IF res.err THEN [store |-> res.store, status |-> StatusInternalServerError, body |-> "none"]
        ELSE [store |-> res.store, status |-> StatusOK, body |-> MarshalVoter(newVoter)]

MemVoterAPI_UpdateVoter(s, id, body) ==
    LET voter == [body EXCEPT !.VoterID = id]
        res == VoterList_UpdateVoter(s, voter)
    IN  IF res.err THEN [store |-> res.store, status |-> StatusInternalServerError, body |-> "none"]
        ELSE [store |-> res.store, status |-> StatusOK,
              body |-> MarshalVoter(VoterList_GetVoter(res.store, id).voter)]

MemVoterAPI_DeleteAllVoters(s) ==
    LET res == VoterList_DeleteAllVoters(s)
    IN  IF res.err THEN [store |-> res.store, status |-> StatusNotFound, body |-> "none"]
        ELSE [store |-> res.store, status |-> StatusOK, body |-> "deleted"]

MemVoterAPI_DeleteVoter(s, id) ==
    LET res == VoterList_DeleteVoter(s, id)
    IN  IF res.err THEN [store |-> res.store, status |-> StatusNotFound, body |-> "none"]
        ELSE [store |-> res.store, status |-> StatusOK, body |-> "deleted"]

MemVoterAPI_GetVoterHistory(s, id) ==
    LET got == VoterList_GetVoterHistory(s, id)
    IN  IF got.err THEN [store |-> s, status |-> StatusNotFound, body |-> "none"]
        ELSE [store |-> s, status |-> StatusOK,
              body |-> [i \in DOMAIN got.history |-> MarshalVoterPoll(got.history[i])]]

MemVoterAPI_GetVoterPoll(s, id, pollId) ==
    LET got == VoterList_GetVoterPoll(s, id, pollId)
    IN  IF got.err THEN [store |-> s, status |-> StatusNotFound, body |-> "none"]
        ELSE [store |-> s, status |-> StatusOK, body |-> MarshalVoterPoll(got.poll)]

MemVoterAPI_AddVoterPoll(s, id, pollId, now) ==
    LET res == VoterList_AddVoterPoll(s, id, pollId, now)
    IN  IF res.err THEN [store |-> res.store, status |-> StatusBadRequest, body |-> "none"]
        ELSE [store |-> res.store, status |-> StatusOK, body |-> MarshalVoterPoll(res.poll)]

MemVoterAPI_UpdateVoterPoll(s, id, pollId, now) ==
    LET res == VoterList_UpdateVoterPoll(s, id, pollId, now)
    IN  IF res.err THEN [store |-> res.store, status |-> StatusBadRequest, body |-> "none"]
        ELSE [store |-> res.store, status |-> StatusOK, body |-> MarshalVoterPoll(res.poll)]

MemVoterAPI_DeleteVoterPoll(s, id, pollId) ==
    LET res == VoterList_DeleteVoterPoll(s, id, pollId)
    IN  IF res.err THEN [store |-> res.store, status |-> StatusNotFound, body |-> "none"]
        ELSE [store |-> res.store, status |-> StatusOK, body |-> "deleted"]

\* ------------------------------------------------------------ poll service handlers
PollAPI_ListAllVPolls(s) ==
    [store |-> s, status |-> StatusOK,
     body |-> {MarshalPoll(p) : p \in PollCache_GetAllPolls(s)}]

PollAPI_GetPoll(s, id) ==
    LET got == PollCache_GetPoll(s, id)
    IN  IF got.err THEN [store |-> s, status |-> StatusNotFound, body |-> "none"]
        ELSE [store |-> s, status |-> StatusOK, body |-> MarshalPoll(got.poll)]

PollAPI_AddPoll(s, id, body) ==
    LET newPoll == NewPoll(id, body.PollTitle, body.PollQuestion)
        res == PollCache_AddPoll(s, newPoll)
    IN  IF res.err THEN [store |-> res.store, status |-> StatusInternalServerError, body |-> "none"]
        ELSE [store |-> res.store, status |-> StatusOK, body |-> MarshalPoll(newPoll)]

PollAPI_DeleteAllPolls(s) ==
    LET res == PollCache_DeleteAllPolls(s)
    IN  IF res.err THEN [store |-> res.store, status |-> StatusNotFound, body |-> "none"]
        ELSE [store |-> res.store, status |-> StatusOK, body |-> "deleted"]

PollAPI_DeletePoll(s, id) ==
    LET res == PollCache_DeletePoll(s, id)
    IN  IF res.err THEN [store |-> res.store, status |-> StatusNotFound, body |-> "none"]
        ELSE [store |-> res.store, status |-> StatusOK, body |-> "deleted"]

PollAPI_GetPollOptions(s, id) ==
    LET got == PollCache_GetPollOptions(s, id)
    IN  IF got.err THEN [store |-> s, status |-> StatusNotFound, body |-> "none"]
        ELSE [store |-> s, status |-> StatusOK,
              body |-> [i \in DOMAIN got.options |-> MarshalPollOption(got.options[i])]]

PollAPI_GetPollOption(s, id, optionId) ==
    LET got == PollCache_GetPollOption(s, id, optionId)
    IN  IF got.err THEN [store |-> s, status |-> StatusNotFound, body |-> "none"]
        ELSE [store |-> s, status |-> StatusOK, body |-> MarshalPollOption(got.option)]

PollAPI_AddPollOption(s, id, optionId, optionText) ==
    LET res == PollCache_AddPollOption(s, id, optionId, optionText)
    IN  IF res.err THEN [store |-> res.store, status |-> StatusBadRequest, body |-> "none"]
        ELSE [store |-> res.store, status |-> StatusOK, body |-> MarshalPollOption(res.option)]

PollAPI_DeletePollOption(s, id, optionId) ==
    LET res == PollCache_DeletePollOption(s, id, optionId)
    IN  IF res.err THEN [store |-> res.store, status |-> StatusNotFound, body |-> "none"]
        ELSE [store |-> res.store, status |-> StatusOK, body |-> "deleted"]

\* ------------------------------------------------------------ votes service handlers
\* encoding/json into the untagged structs of package schema: a key matches a
\* field when they are equal up to letter case
SchemaVoterPoll(d) == [PollID |-> d.pollId, VoteDate |-> d.voteDate]
SchemaVoter(d) ==
    [VoterID |-> d.voterId, FirstName |-> d.firstName, LastName |-> d.lastName,
     VoteHistory |-> [i \in DOMAIN d.voteHistory |-> SchemaVoterPoll(d.voteHistory[i])]]
SchemaPollOption(d) == [PollOptionID |-> d.pollOptionId, PollOptionText |-> d.pollOptionText]
SchemaPoll(d) ==
    [PollID |-> d.pollId, PollTitle |-> d.pollTitle, PollQuestion |-> d.pollQuestion,
     PollOptions |-> [i \in DOMAIN d.pollOptions |-> SchemaPollOption(d.pollOptions[i])]]

\* A remote call as the votes service sees it: status 0 stands for a transport
\* failure (the resty call returns err != nil and the request reaches nobody).
Call(what, status) == [call |-> what, status |-> status]
TransportFailure == 0

\* the loop of lines 138-144 over the decoded voter list
FoundVoterID(voters, vID) == \E voter \in voters : voter.VoterID = vID

\* the loop of lines 166-178 over the decoded poll list: the first poll with
\* the id decides (ids are unique in the list, one document per key)
FoundPollID(polls, pID) == \E poll \in polls : poll.PollID = pID

\* an option test that any option of an existing poll passes (what C1 rules out)
FoundPollOptID_AnyOption(polls, pID, optID) == FoundPollID(polls, pID)

FoundPollOptID(polls, pID, optID) ==
    /\ FoundPollID(polls, pID)
    /\ LET poll == CHOOSE p \in polls : p.PollID = pID
       IN  \E i \in DOMAIN poll.PollOptions : poll.PollOptions[i].PollOptionID = optID

\* a history append that reaches nobody yet reports success (what C2 rules out)
PostVoterPoll_NotSent(rvoter, vote, now) ==
    [store |-> rvoter, status |-> StatusOK, body |-> "none"]

\* the POST of lines 209-225, as the voter service handles it
PostVoterPoll(rvoter, vote, now) ==
    VoterAPI_AddVoterPoll(rvoter, vote.VoterID, vote.PollID, now)

\* The outcome of POST /votes/:id on the three stores.  body is the vote of the
\* request, now the voter service's clock, fail the remote call that meets a
\* transport failure ("none" for a run without one).  remote lists the remote
\* calls made, in order.
VotesAPI_AddVote(rv, rvoter, rpoll, id, body, now, fail) ==
    LET vID == body.VoterID
        votersResp == VoterAPI_ListAllVoters(rvoter)
        voters == {SchemaVoter(d) : d \in votersResp.body}
        pID == body.PollID
        optID == body.VoteValue
        pollsResp == PollAPI_ListAllVPolls(rpoll)
        polls == {SchemaPoll(d) : d \in pollsResp.body}
        vote == [body EXCEPT !.VoteID = id]
        added == VotesCache_AddVote(rv, vote)
        posted == PostVoterPoll(rvoter, vote, now)
        getVoters == Call("GET /voters", votersResp.status)
        getPolls == Call("GET /polls", pollsResp.status)
        NotFound(remote) ==
            [votes |-> rv, voters |-> rvoter, status |-> StatusNotFound, remote |-> remote]
    IN  IF fail = "voters" THEN NotFound(<<Call("GET /voters", TransportFailure)>>)
        ELSE IF ~FoundVoterID(voters, vID) THEN NotFound(<<getVoters>>)
        ELSE IF fail = "polls" THEN NotFound(<<getVoters, Call("GET /polls", TransportFailure)>>)
        ELSE IF ~FoundPollID(polls, pID) THEN NotFound(<<getVoters, getPolls>>)
        ELSE IF ~FoundPollOptID(polls, pID, optID) THEN NotFound(<<getVoters, getPolls>>)
        ELSE IF added.err
        THEN [votes |-> added.store, voters |-> rvoter, status |-> StatusConflict,
              remote |-> <<getVoters, getPolls>>]
        ELSE IF fail = "history"
        THEN [votes |-> added.store, voters |-> rvoter, status |-> StatusInternalServerError,
              remote |-> <<getVoters, getPolls, Call("POST /voters/:id/polls/:pollId", TransportFailure)>>]
        ELSE [votes |-> added.store, voters |-> posted.store, status |-> StatusOK,
              remote |-> <<getVoters, getPolls, Call("POST /voters/:id/polls/:pollId", posted.status)>>]

\* The outcome of DELETE /votes/:id on the votes and voter stores.
VotesAPI_DeleteVote(rv, rvoter, id, fail) ==
    LET got == VotesCache_GetVote(rv, id)
        vote == got.vote
        deletedPoll == VoterAPI_DeleteVoterPoll(rvoter, vote.VoterID, vote.PollID)
        deleted == VotesCache_DeleteVote(rv, id)
    IN  IF got.err
        THEN [votes |-> rv, voters |-> rvoter, status |-> StatusNotFound, remote |-> << >>]
        ELSE IF fail = "history"
        THEN [votes |-> rv, voters |-> rvoter, status |-> StatusInternalServerError,
              remote |-> <<Call("DELETE /voters/:id/polls/:pollId", TransportFailure)>>]
        ELSE IF deleted.err
        THEN [votes |-> rv, voters |-> deletedPoll.store, status |-> StatusInternalServerError,
              remote |-> <<Call("DELETE /voters/:id/polls/:pollId", deletedPoll.status)>>]
        ELSE [votes |-> deleted.store, voters |-> deletedPoll.store, status |-> StatusOK,
              remote |-> <<Call("DELETE /voters/:id/polls/:pollId", deletedPoll.status)>>]

VotesAPI_GetVote(rv, id) ==
    LET got == VotesCache_GetVote(rv, id)
    IN  IF got.err THEN [store |-> rv, status |-> StatusNotFound, body |-> "none"]
        ELSE [store |-> rv, status |-> StatusOK, body |-> MarshalVote(got.vote)]

\* ------------------------------------------------------------ request counters
\* The counters of the votes service.  Durations are whole clock ticks.
MaxCalls == 3
MaxDuration == 2
Durations == 1..MaxDuration

\* the counter fields of the VotesAPI NewVotesHandler returns
NewVotesHandler == [totalCalls |-> 0, errorCalls |-> 0, totalRequestTime |-> 0]

\* GET /votes/health: what the handler reports of the counters it is given
VotesAPI_HealthCheck(v) ==
    LET averageRequestTime ==
            IF v.totalCalls > 0 THEN v.totalRequestTime \div v.totalCalls ELSE 0
    IN  [status |-> StatusOK,
         body |-> [totalAPICalls |-> v.totalCalls,
                   totalAPICallsError |-> v.errorCalls,
                   totalRequestTime |-> v.totalRequestTime,
                   averageRequestTime |-> averageRequestTime]]

VotesAPI_WelcomeToVotesAPI == [status |-> StatusOK, body |-> "Welcome to votes API."]

\* The middleware around one request, in its two halves: what it does before
\* c.Next() runs the route's handler, and what it does after, status being the
\* status the handler wrote and duration the time since start.
HealthMiddleware_Before(v) == [v EXCEPT !.totalCalls = @ + 1]

HealthMiddleware_After(v, status, duration) ==
    LET failed == IF status >= 400 THEN [v EXCEPT !.errorCalls = @ + 1] ELSE v
    IN  [failed EXCEPT !.totalRequestTime = @ + duration]

\* ------------------------------------------------------------ todo store
\* The todo tool's database: one file, read whole by every operation and
\* rewritten whole by every operation that changes it.
MaxItemID == 2
ItemIDs == 1..MaxItemID
Titles == {"sample item", "buy milk"}
ToDoItems == [Id : ItemIDs, Title : Titles, IsDone : BOOLEAN]
ZeroToDoItem == [Id |-> 0, Title |-> "", IsDone |-> FALSE]

\* encoding/json on a ToDoItem, by its field tags
MarshalItem(item) == [id |-> item.Id, title |-> item.Title, done |-> item.IsDone]
UnmarshalItem(o) == [Id |-> o.id, Title |-> o.title, IsDone |-> o.done]

\* What the file can hold: nothing (no such file), or a JSON text, which is
\* the value null or an array of objects.
NoFile == [json |-> "no file", elems |-> << >>]
JSONNull == [json |-> "null", elems |-> << >>]
JSONArray(elems) == [json |-> "array", elems |-> elems]

\* json.MarshalIndent of a []ToDoItem: a nil slice is written as null
MarshalItems(toDoList) ==
    IF toDoList = << >> THEN JSONNull
    ELSE JSONArray([i \in DOMAIN toDoList |-> MarshalItem(toDoList[i])])

\* json.Unmarshal into a nil []ToDoItem: null leaves it nil
UnmarshalItems(data) == [i \in DOMAIN data.elems |-> UnmarshalItem(data.elems[i])]

\* the file initDB creates
initDB == JSONArray(<< >>)

NoError == ""
ItemExists == "item already exists in the database"
ItemMissing == "item does not exist in the database"
ReadFailed == "open: no such file or directory"

\* New: the file is created when it is missing; the handle starts with an
\* empty map
New(file) == [file |-> IF file = NoFile THEN initDB ELSE file, toDoMap |-> EmptyStore]

\* the slice a range over map m appends to, order being the order in which the
\* range meets the keys
RangeItems(m, order) ==
    LET met == SelectSeq(order, LAMBDA k : k \in DOMAIN m)
    IN  [i \in DOMAIN met |-> m[met[i]]]

saveDB(m, order) == MarshalItems(RangeItems(m, order))

\* the loop of loadDB: every item of the list is put into the map kept from
\* earlier calls
RECURSIVE LoadItems(_, _)
LoadItems(m, toDoList) ==
    IF toDoList = << >> THEN m
    ELSE LoadItems(Put(m, Head(toDoList).Id, Head(toDoList)), Tail(toDoList))

\* a loadDB that starts from an empty map
loadDB_ClearsMap(file, m) ==
    IF file = NoFile THEN [toDoMap |-> m, error |-> ReadFailed]
    ELSE [toDoMap |-> LoadItems(EmptyStore, UnmarshalItems(file)), error |-> NoError]

loadDB(file, m) ==
    IF file = NoFile THEN [toDoMap |-> m, error |-> ReadFailed]
    ELSE [toDoMap |-> LoadItems(m, UnmarshalItems(file)), error |-> NoError]

ToDo_AddItem(file, m, item, order) ==
    LET loaded == loadDB(file, m)
        added == Put(loaded.toDoMap, item.Id, item)
    IN  IF loaded.error # NoError
        THEN [file |-> file, toDoMap |-> loaded.toDoMap, error |-> loaded.error]
        ELSE IF item.Id \in DOMAIN loaded.toDoMap
        THEN [file |-> file, toDoMap |-> loaded.toDoMap, error |-> ItemExists]
        ELSE [file |-> saveDB(added, order), toDoMap |-> added, error |-> NoError]

ToDo_DeleteItem(file, m, id, order) ==
    LET loaded == loadDB(file, m)
        deleted == Remove(loaded.toDoMap, id)
    IN  IF loaded.error # NoError
        THEN [file |-> file, toDoMap |-> loaded.toDoMap, error |-> loaded.error]
        ELSE IF id \notin DOMAIN loaded.toDoMap
        THEN [file |-> file, toDoMap |-> loaded.toDoMap, error |-> ItemMissing]
        ELSE [file |-> saveDB(deleted, order), toDoMap |-> deleted, error |-> NoError]

\* an UpdateItem that writes the item whether or not its id is stored
ToDo_UpdateItem_Upserts(file, m, item, order) ==
    LET loaded == loadDB(file, m)
        updated == Put(loaded.toDoMap, item.Id, item)
    IN  [file |-> saveDB(updated, order), toDoMap |-> updated, error |-> NoError]

ToDo_UpdateItem(file, m, item, order) ==
    LET loaded == loadDB(file, m)
        updated == Put(loaded.toDoMap, item.Id, item)
    IN  IF loaded.error # NoError
        THEN [file |-> file, toDoMap |-> loaded.toDoMap, error |-> loaded.error]
        ELSE IF item.Id \notin DOMAIN loaded.toDoMap
        THEN [file |-> file, toDoMap |-> loaded.toDoMap, error |-> ItemMissing]
        ELSE [file |-> saveDB(updated, order), toDoMap |-> updated, error |-> NoError]

ToDo_GetItem(file, m, id) ==
    LET loaded == loadDB(file, m)
    IN  IF loaded.error # NoError
        THEN [file |-> file, toDoMap |-> loaded.toDoMap, error |-> loaded.error,
              item |-> ZeroToDoItem]
        ELSE IF id \notin DOMAIN loaded.toDoMap
        THEN [file |-> file, toDoMap |-> loaded.toDoMap, error |-> ItemMissing,
              item |-> ZeroToDoItem]
        ELSE [file |-> file, toDoMap |-> loaded.toDoMap, error |-> NoError,
              item |-> loaded.toDoMap[id]]

ToDo_GetAllItems(file, m, order) ==
    LET loaded == loadDB(file, m)
    IN  IF loaded.error # NoError
        THEN [file |-> file, toDoMap |-> loaded.toDoMap, error |-> loaded.error,
              toDoList |-> << >>]
        ELSE [file |-> file, toDoMap |-> loaded.toDoMap, error |-> NoError,
              toDoList |-> RangeItems(loaded.toDoMap, order)]

\* a ChangeItemDoneStatus that writes back a zero item carrying only the status
ToDo_ChangeItemDoneStatus_FreshItem(file, m, id, value, order) ==
    LET got == ToDo_GetItem(file, m, id)
        item == [ZeroToDoItem EXCEPT !.Id = id, !.IsDone = value]
    IN  IF got.error # NoError
        THEN [file |-> got.file, toDoMap |-> got.toDoMap, error |-> got.error]
        ELSE ToDo_UpdateItem(got.file, got.toDoMap, item, order)

ToDo_ChangeItemDoneStatus(file, m, id, value, order) ==
    LET got == ToDo_GetItem(file, m, id)
        item == [got.item EXCEPT !.IsDone = value]
    IN  IF got.error # NoError
        THEN [file |-> got.file, toDoMap |-> got.toDoMap, error |-> got.error]
        ELSE ToDo_UpdateItem(got.file, got.toDoMap, item, order)

\* ------------------------------------------------------------ the parts at rest
\* The votes service's counters as NewVotesHandler leaves them, and the todo
\* tool before its first run.  The specifications of the stores and of the
\* handlers follow the handlers themselves, below the middleware, and leave
\* both where they are.
NoneServed == [requests |-> 0, errors |-> 0]

CountersAtBoot ==
    /\ va = NewVotesHandler
    /\ served = NoneServed

TodoNotRun ==
    /\ dbFile = NoFile
    /\ toDoMap = EmptyStore

\* The specifications that take one call at a time have none running side by
\* side.
OneAtATime == running = EmptyStore

\* ------------------------------------------------------------ requests
\* One action per request: the whole handler runs, then its response is
\* recorded in resp for the caller.
Resp(op, args, status, remote) ==
    [op |-> op, args |-> args, status |-> status, remote |-> remote]

Boot == Resp("boot", << >>, StatusOK, << >>)

VoterBodies == [FirstName : FirstNames, LastName : LastNames]

\* --- voter service, document backend
AddVoter(id, body) ==
    /\ backend = "redis"
    /\ LET out == VoterAPI_AddVoter(voterRedis, id, body)
       IN  /\ voterRedis' = out.store
           /\ resp' = Resp("AddVoter", <<id, body>>, out.status, << >>)
    /\ UNCHANGED <<backend, running, counterVars, todoVars, Voters, pollRedis, votesRedis>>

DeleteVoter(id) ==
    /\ backend = "redis"
    /\ LET out == VoterAPI_DeleteVoter(voterRedis, id)
       IN  /\ voterRedis' = out.store
           /\ resp' = Resp("DeleteVoter", <<id>>, out.status, << >>)
    /\ UNCHANGED <<backend, running, counterVars, todoVars, Voters, pollRedis, votesRedis>>

AddVoterPoll(id, pollId, now) ==
    /\ backend = "redis"
    /\ LET out == VoterAPI_AddVoterPoll(voterRedis, id, pollId, now)
       IN  /\ voterRedis' = out.store
           /\ resp' = Resp("AddVoterPoll", <<id, pollId, now>>, out.status, << >>)
    /\ UNCHANGED <<backend, running, counterVars, todoVars, Voters, pollRedis, votesRedis>>

DeleteVoterPoll(id, pollId) ==
    /\ backend = "redis"
    /\ LET out == VoterAPI_DeleteVoterPoll(voterRedis, id, pollId)
       IN  /\ voterRedis' = out.store
           /\ resp' = Resp("DeleteVoterPoll", <<id, pollId>>, out.status, << >>)
    /\ UNCHANGED <<backend, running, counterVars, todoVars, Voters, pollRedis, votesRedis>>

\* --- poll service
AddPoll(id, body) ==
    /\ LET out == PollAPI_AddPoll(pollRedis, id, body)
       IN  /\ pollRedis' = out.store
           /\ resp' = Resp("AddPoll", <<id, body>>, out.status, << >>)
    /\ UNCHANGED <<backend, running, counterVars, todoVars, Voters, voterRedis, votesRedis>>

DeletePoll(id) ==
    /\ LET out == PollAPI_DeletePoll(pollRedis, id)
       IN  /\ pollRedis' = out.store
           /\ resp' = Resp("DeletePoll", <<id>>, out.status, << >>)
    /\ UNCHANGED <<backend, running, counterVars, todoVars, Voters, voterRedis, votesRedis>>

AddPollOption(id, optionId, optionText) ==
    /\ LET out == PollAPI_AddPollOption(pollRedis, id, optionId, optionText)
       IN  /\ pollRedis' = out.store
           /\ resp' = Resp("AddPollOption", <<id, optionId, optionText>>, out.status, << >>)
    /\ UNCHANGED <<backend, running, counterVars, todoVars, Voters, voterRedis, votesRedis>>

DeletePollOption(id, optionId) ==
    /\ LET out == PollAPI_DeletePollOption(pollRedis, id, optionId)
       IN  /\ pollRedis' = out.store
           /\ resp' = Resp("DeletePollOption", <<id, optionId>>, out.status, << >>)
    /\ UNCHANGED <<backend, running, counterVars, todoVars, Voters, voterRedis, votesRedis>>

\* --- votes service
AddVote(id, body, now, fail) ==
    /\ backend = "redis"
    /\ LET out == VotesAPI_AddVote(votesRedis, voterRedis, pollRedis, id, body, now, fail)
       IN  /\ votesRedis' = out.votes
           /\ voterRedis' = out.voters
           /\ resp' = Resp("AddVote", <<id, body>>, out.status, out.remote)
    /\ UNCHANGED <<backend, running, counterVars, todoVars, Voters, pollRedis>>

DeleteVote(id, fail) ==
    /\ backend = "redis"
    /\ LET out == VotesAPI_DeleteVote(votesRedis, voterRedis, id, fail)
       IN  /\ votesRedis' = out.votes
           /\ voterRedis' = out.voters
           /\ resp' = Resp("DeleteVote", <<id>>, out.status, out.remote)
    /\ UNCHANGED <<backend, running, counterVars, todoVars, Voters, pollRedis>>

\* --- voter service, document backend, the other writing requests
UpdateVoter(id, body) ==
    /\ backend = "redis"
    /\ LET out == VoterAPI_UpdateVoter(voterRedis, id, body)
       IN  /\ voterRedis' = out.store
           /\ resp' = Resp("UpdateVoter", <<id, body>>, out.status, << >>)
    /\ UNCHANGED <<backend, running, counterVars, todoVars, Voters, pollRedis, votesRedis>>

DeleteAllVoters ==
    /\ backend = "redis"
    /\ LET out == VoterAPI_DeleteAllVoters(voterRedis)
       IN  /\ voterRedis' = out.store
           /\ resp' = Resp("DeleteAllVoters", << >>, out.status, << >>)
    /\ UNCHANGED <<backend, running, counterVars, todoVars, Voters, pollRedis, votesRedis>>

UpdateVoterPoll(id, pollId, now) ==
    /\ backend = "redis"
    /\ LET out == VoterAPI_UpdateVoterPoll(voterRedis, id, pollId, now)
       IN  /\ voterRedis' = out.store
           /\ resp' = Resp("UpdateVoterPoll", <<id, pollId, now>>, out.status, << >>)
    /\ UNCHANGED <<backend, running, counterVars, todoVars, Voters, pollRedis, votesRedis>>

\* --- voter service, in-memory backend
MemAddVoter(id, body) ==
    /\ backend = "memory"
    /\ LET out == MemVoterAPI_AddVoter(Voters, id, body)
       IN  /\ Voters' = out.store
           /\ resp' = Resp("AddVoter", <<id, body>>, out.status, << >>)
    /\ UNCHANGED <<backend, running, counterVars, todoVars, voterRedis, pollRedis, votesRedis>>

MemUpdateVoter(id, body) ==
    /\ backend = "memory"
    /\ LET out == MemVoterAPI_UpdateVoter(Voters, id, body)
       IN  /\ Voters' = out.store
           /\ resp' = Resp("UpdateVoter", <<id, body>>, out.status, << >>)
    /\ UNCHANGED <<backend, running, counterVars, todoVars, voterRedis, pollRedis, votesRedis>>

MemDeleteAllVoters ==
    /\ backend = "memory"
    /\ LET out == MemVoterAPI_DeleteAllVoters(Voters)
       IN  /\ Voters' = out.store
           /\ resp' = Resp("DeleteAllVoters", << >>, out.status, << >>)
    /\ UNCHANGED <<backend, running, counterVars, todoVars, voterRedis, pollRedis, votesRedis>>

MemDeleteVoter(id) ==
    /\ backend = "memory"
    /\ LET out == MemVoterAPI_DeleteVoter(Voters, id)
       IN  /\ Voters' = out.store
           /\ resp' = Resp("DeleteVoter", <<id>>, out.status, << >>)
    /\ UNCHANGED <<backend, running, counterVars, todoVars, voterRedis, pollRedis, votesRedis>>

MemAddVoterPoll(id, pollId, now) ==
    /\ backend = "memory"
    /\ LET out == MemVoterAPI_AddVoterPoll(Voters, id, pollId, now)
       IN  /\ Voters' = out.store
           /\ resp' = Resp("AddVoterPoll", <<id, pollId, now>>, out.status, << >>)
    /\ UNCHANGED <<backend, running, counterVars, todoVars, voterRedis, pollRedis, votesRedis>>

MemUpdateVoterPoll(id, pollId, now) ==
    /\ backend = "memory"
    /\ LET out == MemVoterAPI_UpdateVoterPoll(Voters, id, pollId, now)
       IN  /\ Voters' = out.store
           /\ resp' = Resp("UpdateVoterPoll", <<id, pollId, now>>, out.status, << >>)
    /\ UNCHANGED <<backend, running, counterVars, todoVars, voterRedis, pollRedis, votesRedis>>

MemDeleteVoterPoll(id, pollId) ==
    /\ backend = "memory"
    /\ LET out == MemVoterAPI_DeleteVoterPoll(Voters, id, pollId)
       IN  /\ Voters' = out.store
           /\ resp' = Resp("DeleteVoterPoll", <<id, pollId>>, out.status, << >>)
    /\ UNCHANGED <<backend, running, counterVars, todoVars, voterRedis, pollRedis, votesRedis>>

\* --- poll service, the other writing request
DeleteAllPolls ==
    /\ LET out == PollAPI_DeleteAllPolls(pollRedis)
       IN  /\ pollRedis' = out.store
           /\ resp' = Resp("DeleteAllPolls", << >>, out.status, << >>)
    /\ UNCHANGED <<backend, running, counterVars, todoVars, Voters, voterRedis, votesRedis>>

\* --- the stores, called directly
\* One action per store operation: the operation runs, then the call, its
\* argument and whether it returned an error are recorded in resp.
StoreResp(op, args, err) == [op |-> op, args |-> args, err |-> err]

VoterListAddVoter(voter) ==
    /\ backend = "memory"
    /\ LET out == VoterList_AddVoter(Voters, voter)
       IN  /\ Voters' = out.store
           /\ resp' = StoreResp("VoterList.AddVoter", <<voter>>, out.err)
    /\ UNCHANGED <<backend, running, counterVars, todoVars, voterRedis, pollRedis, votesRedis>>

VoterListDeleteVoter(voterID) ==
    /\ backend = "memory"
    /\ LET out == VoterList_DeleteVoter(Voters, voterID)
       IN  /\ Voters' = out.store
           /\ resp' = StoreResp("VoterList.DeleteVoter", <<voterID>>, out.err)
    /\ UNCHANGED <<backend, running, counterVars, todoVars, voterRedis, pollRedis, votesRedis>>

VoterCacheAddVoter(voter) ==
    /\ backend = "redis"
    /\ LET out == VoterCache_AddVoter(voterRedis, voter)
       IN  /\ voterRedis' = out.store
           /\ resp' = StoreResp("VoterCache.AddVoter", <<voter>>, out.err)
    /\ UNCHANGED <<backend, running, counterVars, todoVars, Voters, pollRedis, votesRedis>>

VoterCacheDeleteVoter(voterID) ==
    /\ backend = "redis"
    /\ LET out == VoterCache_DeleteVoter(voterRedis, voterID)
       IN  /\ voterRedis' = out.store
           /\ resp' = StoreResp("VoterCache.DeleteVoter", <<voterID>>, out.err)
    /\ UNCHANGED <<backend, running, counterVars, todoVars, Voters, pollRedis, votesRedis>>

VoterListUpdateVoter(voter) ==
    /\ backend = "memory"
    /\ LET out == VoterList_UpdateVoter(Voters, voter)
       IN  /\ Voters' = out.store
           /\ resp' = StoreResp("VoterList.UpdateVoter", <<voter>>, out.err)
    /\ UNCHANGED <<backend, running, counterVars, todoVars, voterRedis, pollRedis, votesRedis>>

VoterCacheUpdateVoter(voter) ==
    /\ backend = "redis"
    /\ LET out == VoterCache_UpdateVoter(voterRedis, voter)
       IN  /\ voterRedis' = out.store
           /\ resp' = StoreResp("VoterCache.UpdateVoter", <<voter>>, out.err)
    /\ UNCHANGED <<backend, running, counterVars, todoVars, Voters, pollRedis, votesRedis>>

PollCacheAddPoll(poll) ==
    /\ backend = "poll"
    /\ LET out == PollCache_AddPoll(pollRedis, poll)
       IN  /\ pollRedis' = out.store
           /\ resp' = StoreResp("PollCache.AddPoll", <<poll>>, out.err)
    /\ UNCHANGED <<backend, running, counterVars, todoVars, Voters, voterRedis, votesRedis>>

PollCacheDeletePoll(pollID) ==
    /\ backend = "poll"
    /\ LET out == PollCache_DeletePoll(pollRedis, pollID)
       IN  /\ pollRedis' = out.store
           /\ resp' = StoreResp("PollCache.DeletePoll", <<pollID>>, out.err)
    /\ UNCHANGED <<backend, running, counterVars, todoVars, Voters, voterRedis, votesRedis>>

VotesCacheAddVote(vote) ==
    /\ backend = "votes"
    /\ LET out == VotesCache_AddVote(votesRedis, vote)
       IN  /\ votesRedis' = out.store
           /\ resp' = StoreResp("VotesCache.AddVote", <<vote>>, out.err)
    /\ UNCHANGED <<backend, running, counterVars, todoVars, Voters, voterRedis, pollRedis>>

VotesCacheDeleteVote(voteID) ==
    /\ backend = "votes"
    /\ LET out == VotesCache_DeleteVote(votesRedis, voteID)
       IN  /\ votesRedis' = out.store
           /\ resp' = StoreResp("VotesCache.DeleteVote", <<voteID>>, out.err)
    /\ UNCHANGED <<backend, running, counterVars, todoVars, Voters, voterRedis, pollRedis>>

\* ------------------------------------------------------------ the voting application
\* The three services on the document store, taking requests one at a time.
\* The poll service has been given its catalogue (polls 1..MaxPollID, each with
\* the options 1..MaxOptionID) and takes no further request; poll 0 and option
\* 0 do not exist.  Names and texts play no part in the workflow and are fixed.
RECURSIVE WithOptions(_, _, _)
WithOptions(s, id, n) ==
    IF n = 0 THEN s
    ELSE PollAPI_AddPollOption(WithOptions(s, id, n - 1), id, n, "Tea").store

RECURSIVE Catalogue(_)
Catalogue(n) ==
    IF n = 0 THEN EmptyStore
    ELSE WithOptions(PollAPI_AddPoll(Catalogue(n - 1), n,
                                     [PollTitle |-> "Tea or Coffee",
                                      PollQuestion |-> "Do you like Tea or Coffee?"]).store,
                     n, MaxOptionID)

\* A vote's references include 0, the value of a field the request leaves out.
AppVoterIDs == 1..MaxAppVoterID
VoteValues == 0..MaxOptionID
VoteBodies ==
    [VoteID : {0}, VoterID : 0..MaxAppVoterID, PollID : PollIDs, VoteValue : VoteValues]

Init ==
    /\ backend = "redis"
    /\ Voters = EmptyStore
    /\ voterRedis = EmptyStore
    /\ pollRedis = Catalogue(MaxPollID)
    /\ votesRedis = EmptyStore
    /\ resp = Boot
    /\ CountersAtBoot
    /\ OneAtATime
    /\ TodoNotRun

Next ==
    \/ \E id \in AppVoterIDs :
          AddVoter(id, [FirstName |-> "Nisarg", LastName |-> "Patel"])
    \/ \E id \in AppVoterIDs : DeleteVoter(id)
    \/ \E id \in AppVoterIDs, pollId \in PollIDs, now \in Dates : AddVoterPoll(id, pollId, now)
    \/ \E id \in AppVoterIDs, pollId \in PollIDs : DeleteVoterPoll(id, pollId)
    \/ \E id \in VoteIDs, body \in VoteBodies, now \in Dates,
          fail \in {"none", "voters", "polls", "history"} :
          AddVote(id, body, now, fail)
    \/ \E id \in VoteIDs, fail \in {"none", "history"} : DeleteVote(id, fail)

Spec == Init /\ [][Next]_vars

\* ------------------------------------------------------------ the services one at a time
\* The voter service (either backend) and the poll service keep separate
\* stores and call nobody, so a run sends its requests to one of them, chosen
\* at the start; every request that writes is sent.  A voter body carries a
\* history as well as names, a poll body carries options.
SomeHistories ==
    {<< >>, <<[PollID |-> 1, VoteDate |-> 1], [PollID |-> 1, VoteDate |-> 2]>>}
VoterRequestBodies ==
    [VoterID : {0}, FirstName : FirstNames, LastName : LastNames,
     VoteHistory : SomeHistories]
PollRequestBodies == [PollTitle : PollTitles, PollQuestion : PollQuestions]

InitServices ==
    /\ backend \in {"memory", "redis", "poll"}
    /\ Voters = EmptyStore
    /\ voterRedis = EmptyStore
    /\ pollRedis = EmptyStore
    /\ votesRedis = EmptyStore
    /\ resp = Boot
    /\ CountersAtBoot
    /\ OneAtATime
    /\ TodoNotRun

NextServices ==
    \/ \E id \in VoterIDs, body \in VoterRequestBodies : AddVoter(id, body)
    \/ \E id \in VoterIDs, body \in VoterRequestBodies : UpdateVoter(id, body)
    \/ DeleteAllVoters
    \/ \E id \in VoterIDs : DeleteVoter(id)
    \/ \E id \in VoterIDs, pollId \in PollIDs, now \in Dates : AddVoterPoll(id, pollId, now)
    \/ \E id \in VoterIDs, pollId \in PollIDs, now \in Dates : UpdateVoterPoll(id, pollId, now)
    \/ \E id \in VoterIDs, pollId \in PollIDs : DeleteVoterPoll(id, pollId)
    \/ \E id \in VoterIDs, body \in VoterRequestBodies : MemAddVoter(id, body)
    \/ \E id \in VoterIDs, body \in VoterRequestBodies : MemUpdateVoter(id, body)
    \/ MemDeleteAllVoters
    \/ \E id \in VoterIDs : MemDeleteVoter(id)
    \/ \E id \in VoterIDs, pollId \in PollIDs, now \in Dates : MemAddVoterPoll(id, pollId, now)
    \/ \E id \in VoterIDs, pollId \in PollIDs, now \in Dates : MemUpdateVoterPoll(id, pollId, now)
    \/ \E id \in VoterIDs, pollId \in PollIDs : MemDeleteVoterPoll(id, pollId)
    \/ backend = "poll" /\ \E id \in PollIDs, body \in PollRequestBodies : AddPoll(id, body)
    \/ backend = "poll" /\ DeleteAllPolls
    \/ backend = "poll" /\ \E id \in PollIDs : DeletePoll(id)
    \/ backend = "poll" /\ \E id \in PollIDs, optionId \in OptionIDs, optionText \in OptionTexts :
          AddPollOption(id, optionId, optionText)
    \/ backend = "poll" /\ \E id \in PollIDs, optionId \in OptionIDs : DeletePollOption(id, optionId)

SpecServices == InitServices /\ [][NextServices]_vars

\* ------------------------------------------------------------ the stores one at a time
\* Each store taken alone and given any entity: a history or an option list
\* of up to MaxSliceLen entries, repeated ids included, and a vote with any
\* references.  A run calls one store, chosen at the start.
StoreVoterPolls == [PollID : PollIDs, VoteDate : {1}]
StorePollOptions == [PollOptionID : OptionIDs, PollOptionText : {"Tea"}]
StoreVoters ==
    [VoterID : VoterIDs, FirstName : FirstNames, LastName : LastNames,
     VoteHistory : SeqUpTo(StoreVoterPolls, MaxSliceLen)]
StorePolls ==
    [PollID : PollIDs, PollTitle : PollTitles, PollQuestion : PollQuestions,
     PollOptions : SeqUpTo(StorePollOptions, MaxSliceLen)]
StoreVotes == {[body EXCEPT !.VoteID = id] : body \in VoteBodies, id \in VoteIDs}

InitStore ==
    /\ backend \in {"memory", "redis", "poll", "votes"}
    /\ Voters = EmptyStore
    /\ voterRedis = EmptyStore
    /\ pollRedis = EmptyStore
    /\ votesRedis = EmptyStore
    /\ resp = StoreResp("boot", << >>, FALSE)
    /\ CountersAtBoot
    /\ OneAtATime
    /\ TodoNotRun

NextStore ==
    \/ \E voter \in StoreVoters : VoterListAddVoter(voter)
    \/ \E voterID \in VoterIDs : VoterListDeleteVoter(voterID)
    \/ \E voter \in StoreVoters : VoterCacheAddVoter(voter)
    \/ \E voterID \in VoterIDs : VoterCacheDeleteVoter(voterID)
    \/ \E voter \in StoreVoters : VoterListUpdateVoter(voter)
    \/ \E voter \in StoreVoters : VoterCacheUpdateVoter(voter)
    \/ \E poll \in StorePolls : PollCacheAddPoll(poll)
    \/ \E pollID \in PollIDs : PollCacheDeletePoll(pollID)
    \/ \E vote \in StoreVotes : VotesCacheAddVote(vote)
    \/ \E voteID \in VoteIDs : VotesCacheDeleteVote(voteID)

SpecStore == InitStore /\ [][NextStore]_vars

\* ------------------------------------------------------------ the votes service behind its middleware
\* The votes service as main wires it: HealthMiddleware runs around every
\* route, the health route included.  The voter and poll services hold voter 1
\* and the catalogue, and take the calls of the votes service only.  Requests
\* come one at a time, at most MaxCalls of them.
Served(out) ==
    [requests |-> served.requests + 1,
     errors |-> served.errors + (IF out.status >= 400 THEN 1 ELSE 0)]

ServeWelcome(duration) ==
    /\ va.totalCalls < MaxCalls
    /\ LET counted == HealthMiddleware_Before(va)
           out == VotesAPI_WelcomeToVotesAPI
       IN  /\ va' = HealthMiddleware_After(counted, out.status, duration)
           /\ served' = Served(out)
           /\ resp' = Resp("WelcomeToVotesAPI", << >>, out.status, << >>)
    /\ UNCHANGED <<backend, running, Voters, voterRedis, pollRedis, votesRedis, todoVars>>

ServeGetVote(id, duration) ==
    /\ va.totalCalls < MaxCalls
    /\ LET counted == HealthMiddleware_Before(va)
           out == VotesAPI_GetVote(votesRedis, id)
       IN  /\ va' = HealthMiddleware_After(counted, out.status, duration)
           /\ served' = Served(out)
           /\ resp' = Resp("GetVote", <<id>>, out.status, << >>)
    /\ UNCHANGED <<backend, running, Voters, voterRedis, pollRedis, votesRedis, todoVars>>

ServeAddVote(id, body, now, duration) ==
    /\ va.totalCalls < MaxCalls
    /\ LET counted == HealthMiddleware_Before(va)
           out == VotesAPI_AddVote(votesRedis, voterRedis, pollRedis, id, body, now, "none")
       IN  /\ va' = HealthMiddleware_After(counted, out.status, duration)
           /\ served' = Served(out)
           /\ votesRedis' = out.votes
           /\ voterRedis' = out.voters
           /\ resp' = Resp("AddVote", <<id, body>>, out.status, out.remote)
    /\ UNCHANGED <<backend, running, Voters, pollRedis, todoVars>>

ServeDeleteVote(id, duration) ==
    /\ va.totalCalls < MaxCalls
    /\ LET counted == HealthMiddleware_Before(va)
           out == VotesAPI_DeleteVote(votesRedis, voterRedis, id, "none")
       IN  /\ va' = HealthMiddleware_After(counted, out.status, duration)
           /\ served' = Served(out)
           /\ votesRedis' = out.votes
           /\ voterRedis' = out.voters
           /\ resp' = Resp("DeleteVote", <<id>>, out.status, out.remote)
    /\ UNCHANGED <<backend, running, Voters, pollRedis, todoVars>>

ServeHealthCheck(duration) ==
    /\ va.totalCalls < MaxCalls
    /\ LET counted == HealthMiddleware_Before(va)
           out == VotesAPI_HealthCheck(counted)
       IN  /\ va' = HealthMiddleware_After(counted, out.status, duration)
           /\ served' = Served(out)
           /\ resp' = [op |-> "HealthCheck", args |-> << >>, status |-> out.status,
                       remote |-> << >>, body |-> out.body]
    /\ UNCHANGED <<backend, running, Voters, voterRedis, pollRedis, votesRedis, todoVars>>

InitHealth ==
    /\ backend = "redis"
    /\ Voters = EmptyStore
    /\ voterRedis = VoterAPI_AddVoter(EmptyStore, 1,
                                      [FirstName |-> "Nisarg", LastName |-> "Patel"]).store
    /\ pollRedis = Catalogue(MaxPollID)
    /\ votesRedis = EmptyStore
    /\ resp = Boot
    /\ CountersAtBoot
    /\ OneAtATime
    /\ TodoNotRun

NextHealth ==
    \/ \E duration \in Durations : ServeWelcome(duration)
    \/ \E id \in VoteIDs, duration \in Durations : ServeGetVote(id, duration)
    \/ \E id \in VoteIDs, body \in VoteBodies, duration \in Durations :
          ServeAddVote(id, body, 1, duration)
    \/ \E id \in VoteIDs, duration \in Durations : ServeDeleteVote(id, duration)
    \/ \E duration \in Durations : ServeHealthCheck(duration)

SpecHealth == InitHealth /\ [][NextHealth]_vars

\* ------------------------------------------------------------ the todo tool
\* One handle on the database file at a time, its operations one after the
\* other; NewToDo is the start of a further run of the tool on the file the
\* earlier runs left.  order is the order in which a range over the map meets
\* the keys.
TodoResp(op, args, error, result) ==
    [op |-> op, args |-> args, error |-> error, result |-> result]

NewToDo ==
    /\ backend = "todo"
    /\ LET made == New(dbFile)
       IN  /\ dbFile' = made.file
           /\ toDoMap' = made.toDoMap
           /\ resp' = TodoResp("New", << >>, NoError, << >>)
    /\ UNCHANGED <<backend, running, Voters, voterRedis, pollRedis, votesRedis, counterVars>>

AddItem(item, order) ==
    /\ backend = "todo"
    /\ LET out == ToDo_AddItem(dbFile, toDoMap, item, order)
       IN  /\ dbFile' = out.file
           /\ toDoMap' = out.toDoMap
           /\ resp' = TodoResp("AddItem", <<item>>, out.error, << >>)
    /\ UNCHANGED <<backend, running, Voters, voterRedis, pollRedis, votesRedis, counterVars>>

DeleteItem(id, order) ==
    /\ backend = "todo"
    /\ LET out == ToDo_DeleteItem(dbFile, toDoMap, id, order)
       IN  /\ dbFile' = out.file
           /\ toDoMap' = out.toDoMap
           /\ resp' = TodoResp("DeleteItem", <<id>>, out.error, << >>)
    /\ UNCHANGED <<backend, running, Voters, voterRedis, pollRedis, votesRedis, counterVars>>

UpdateItem(item, order) ==
    /\ backend = "todo"
    /\ LET out == ToDo_UpdateItem(dbFile, toDoMap, item, order)
       IN  /\ dbFile' = out.file
           /\ toDoMap' = out.toDoMap
           /\ resp' = TodoResp("UpdateItem", <<item>>, out.error, << >>)
    /\ UNCHANGED <<backend, running, Voters, voterRedis, pollRedis, votesRedis, counterVars>>

GetItem(id) ==
    /\ backend = "todo"
    /\ LET out == ToDo_GetItem(dbFile, toDoMap, id)
       IN  /\ dbFile' = out.file
           /\ toDoMap' = out.toDoMap
           /\ resp' = TodoResp("GetItem", <<id>>, out.error, <<out.item>>)
    /\ UNCHANGED <<backend, running, Voters, voterRedis, pollRedis, votesRedis, counterVars>>

GetAllItems(order) ==
    /\ backend = "todo"
    /\ LET out == ToDo_GetAllItems(dbFile, toDoMap, order)
       IN  /\ dbFile' = out.file
           /\ toDoMap' = out.toDoMap
           /\ resp' = TodoResp("GetAllItems", << >>, out.error, out.toDoList)
    /\ UNCHANGED <<backend, running, Voters, voterRedis, pollRedis, votesRedis, counterVars>>

ChangeItemDoneStatus(id, value, order) ==
    /\ backend = "todo"
    /\ LET out == ToDo_ChangeItemDoneStatus(dbFile, toDoMap, id, value, order)
       IN  /\ dbFile' = out.file
           /\ toDoMap' = out.toDoMap
           /\ resp' = TodoResp("ChangeItemDoneStatus", <<id, value>>, out.error, << >>)
    /\ UNCHANGED <<backend, running, Voters, voterRedis, pollRedis, votesRedis, counterVars>>

\* the first run of the tool: New on a file that does not exist yet
InitTodo ==
    /\ backend = "todo"
    /\ Voters = EmptyStore
    /\ voterRedis = EmptyStore
    /\ pollRedis = EmptyStore
    /\ votesRedis = EmptyStore
    /\ CountersAtBoot
    /\ OneAtATime
    /\ dbFile = New(NoFile).file
    /\ toDoMap = New(NoFile).toDoMap
    /\ resp = TodoResp("New", << >>, NoError, << >>)

NextTodo ==
    \/ NewToDo
    \/ \E item \in ToDoItems, order \in Orders(ItemIDs) : AddItem(item, order)
    \/ \E id \in ItemIDs, order \in Orders(ItemIDs) : DeleteItem(id, order)
    \/ \E item \in ToDoItems, order \in Orders(ItemIDs) : UpdateItem(item, order)
    \/ \E id \in ItemIDs : GetItem(id)
    \/ \E order \in Orders(ItemIDs) : GetAllItems(order)
    \/ \E id \in ItemIDs, value \in BOOLEAN, order \in Orders(ItemIDs) :
          ChangeItemDoneStatus(id, value, order)

SpecTodo == InitTodo /\ [][NextTodo]_vars

\* ------------------------------------------------------------ the vote workflow alone
\* The voting application when the votes service is the only one that takes
\* requests: voter 1 and the catalogue are in place and stay, no remote call
\* meets a transport failure, and the voter's history changes through AddVote
\* and DeleteVote only.
InitWorkflow ==
    /\ backend = "redis"
    /\ Voters = EmptyStore
    /\ voterRedis = VoterAPI_AddVoter(EmptyStore, 1,
                                      [FirstName |-> "Nisarg", LastName |-> "Patel"]).store
    /\ pollRedis = Catalogue(MaxPollID)
    /\ votesRedis = EmptyStore
    /\ resp = Boot
    /\ CountersAtBoot
    /\ OneAtATime
    /\ TodoNotRun

NextWorkflow ==
    \/ \E id \in VoteIDs, body \in VoteBodies, now \in Dates : AddVote(id, body, now, "none")
    \/ \E id \in VoteIDs : DeleteVote(id, "none")

SpecWorkflow == InitWorkflow /\ [][NextWorkflow]_vars

\* ------------------------------------------------------------ AddVote among other requests
\* POST /votes/:id taken one remote call at a time, while the voter and poll
\* services take delete requests of their own in between.  Each store call and
\* each remote request is one step; caller 1 is the AddVote in progress.
AddVoteCall(pc, id, body, remote) ==
    [op |-> "AddVote", pc |-> pc, id |-> id, body |-> body, remote |-> remote]

AddVoteRunning(pc) == 1 \in DOMAIN running /\ running[1].op = "AddVote" /\ running[1].pc = pc

\* the request arrives and its body is bound
BeginAddVote(id, body) ==
    /\ running = EmptyStore
    /\ running' = Put(running, 1, AddVoteCall("voters", id, body, << >>))
    /\ UNCHANGED <<backend, Voters, voterRedis, pollRedis, votesRedis, resp, counterVars, todoVars>>

\* GET /voters and the search of lines 138-150 in its reply
AddVoteGetVoters ==
    /\ AddVoteRunning("voters")
    /\ LET call == running[1]
           votersResp == VoterAPI_ListAllVoters(voterRedis)
           voters == {SchemaVoter(d) : d \in votersResp.body}
           remote == <<Call("GET /voters", votersResp.status)>>
       IN  IF FoundVoterID(voters, call.body.VoterID)
           THEN /\ running' = Put(running, 1, AddVoteCall("polls", call.id, call.body, remote))
                /\ UNCHANGED resp
           ELSE /\ running' = Remove(running, 1)
                /\ resp' = Resp("AddVote", <<call.id, call.body>>, StatusNotFound, remote)
    /\ UNCHANGED <<backend, Voters, voterRedis, pollRedis, votesRedis, counterVars, todoVars>>

\* GET /polls and the search of lines 166-190 in its reply
AddVoteGetPolls ==
    /\ AddVoteRunning("polls")
    /\ LET call == running[1]
           pollsResp == PollAPI_ListAllVPolls(pollRedis)
           polls == {SchemaPoll(d) : d \in pollsResp.body}
           remote == Append(call.remote, Call("GET /polls", pollsResp.status))
       IN  IF FoundPollOptID(polls, call.body.PollID, call.body.VoteValue)
           THEN /\ running' = Put(running, 1, AddVoteCall("insert", call.id, call.body, remote))
                /\ UNCHANGED resp
           ELSE /\ running' = Remove(running, 1)
                /\ resp' = Resp("AddVote", <<call.id, call.body>>, StatusNotFound, remote)
    /\ UNCHANGED <<backend, Voters, voterRedis, pollRedis, votesRedis, counterVars, todoVars>>

\* va.votesList.AddVote(vote), lines 200-207
AddVoteInsert ==
    /\ AddVoteRunning("insert")
    /\ LET call == running[1]
           vote == [call.body EXCEPT !.VoteID = call.id]
           added == VotesCache_AddVote(votesRedis, vote)
       IN  /\ votesRedis' = added.store
           /\ IF added.err
              THEN /\ running' = Remove(running, 1)
                   /\ resp' = Resp("AddVote", <<call.id, call.body>>, StatusConflict,
                                   call.remote)
              ELSE /\ running' = Put(running, 1,
                                     AddVoteCall("history", call.id, call.body, call.remote))
                   /\ UNCHANGED resp
    /\ UNCHANGED <<backend, Voters, voterRedis, pollRedis, counterVars, todoVars>>

\* the POST of lines 209-233 and the answer to the caller
AddVotePostHistory(now) ==
    /\ AddVoteRunning("history")
    /\ LET call == running[1]
           vote == [call.body EXCEPT !.VoteID = call.id]
           posted == PostVoterPoll(voterRedis, vote, now)
       IN  /\ voterRedis' = posted.store
           /\ running' = Remove(running, 1)
           /\ resp' = Resp("AddVote", <<call.id, call.body>>, StatusOK,
                           Append(call.remote,
                                  Call("POST /voters/:id/polls/:pollId", posted.status)))
    /\ UNCHANGED <<backend, Voters, pollRedis, votesRedis, counterVars, todoVars>>

InitAmongOthers ==
    /\ backend = "redis"
    /\ Voters = EmptyStore
    /\ voterRedis = VoterAPI_AddVoter(EmptyStore, 1,
                                      [FirstName |-> "Nisarg", LastName |-> "Patel"]).store
    /\ pollRedis = Catalogue(MaxPollID)
    /\ votesRedis = EmptyStore
    /\ resp = Boot
    /\ CountersAtBoot
    /\ TodoNotRun
    /\ running = EmptyStore

NextAmongOthers ==
    \/ \E id \in VoteIDs, body \in VoteBodies : BeginAddVote(id, body)
    \/ AddVoteGetVoters
    \/ AddVoteGetPolls
    \/ AddVoteInsert
    \/ \E now \in Dates : AddVotePostHistory(now)
    \/ \E id \in AppVoterIDs : DeleteVoter(id)
    \/ \E id \in PollIDs : DeletePoll(id)
    \/ \E id \in PollIDs, optionId \in OptionIDs : DeletePollOption(id, optionId)

SpecAmongOthers == InitAmongOthers /\ [][NextAmongOthers]_vars

\* ------------------------------------------------------------ store calls side by side
\* Two callers on the document stores, each with one call.  A call is two
\* round trips: the read of its key, and, unless what it read makes it return
\* an error, the JSONSet of the document it built from what it read.  Each
\* round trip is one step.
Callers == {1, 2}

\* a set that leaves a key alone once it holds a document
JSONSet_KeepsExisting(r, key, doc) == IF key \in DOMAIN r THEN r ELSE Put(r, key, doc)

\* JSONSet(key, ".", doc) on store r
JSONSet(r, key, doc) == Put(r, key, doc)

\* the store as the call's read of key showed it
Seen(r, key) == IF key \in DOMAIN r THEN Put(EmptyStore, key, r[key]) ELSE EmptyStore

SideCalls ==
    {[op |-> "AddVoter", arg |-> NewVoter(id, firstName, "Patel")] :
        id \in {1}, firstName \in FirstNames}
    \cup {[op |-> "UpdateVoter", arg |-> NewVoter(1, "Anish", "Patel")]}
    \cup {[op |-> "AddVoterPoll", arg |-> [voterID |-> 1, pollID |-> pollID, voteDate |-> 1]] :
             pollID \in 1..MaxPollID}
    \cup {[op |-> "AddPoll", arg |-> NewPoll(1, pollTitle, "Do you like Tea or Coffee?")] :
             pollTitle \in PollTitles}
    \cup {[op |-> "AddVote",
           arg |-> [VoteID |-> 1, VoterID |-> 1, PollID |-> 1, VoteValue |-> value]] :
             value \in 1..MaxOptionID}

\* the store a call works on and its key there
CallStore(call) ==
    IF call.op = "AddPoll" THEN "poll" ELSE IF call.op = "AddVote" THEN "votes" ELSE "voter"

CallKey(call) ==
    IF call.op = "AddPoll" THEN PollKey(call.arg.PollID)
    ELSE IF call.op = "AddVote" THEN VoteKey(call.arg.VoteID)
    ELSE IF call.op = "AddVoterPoll" THEN VoterKey(call.arg.voterID)
    ELSE VoterKey(call.arg.VoterID)

StoreNow(call) ==
    IF CallStore(call) = "poll" THEN pollRedis
    ELSE IF CallStore(call) = "votes" THEN votesRedis
    ELSE voterRedis

\* what the call does with what it read: the store operation on the store as
\* seen
CallOutcome(call) ==
    IF call.op = "AddVoter" THEN VoterCache_AddVoter(call.seen, call.arg)
    ELSE IF call.op = "UpdateVoter" THEN
        LET out == VoterCache_UpdateVoter(call.seen, call.arg)
        IN  [store |-> out.store, err |-> out.err]
    ELSE IF call.op = "AddVoterPoll" THEN
        LET out == VoterCache_AddVoterPoll(call.seen, call.arg.voterID, call.arg.pollID,
                                           call.arg.voteDate)
        IN  [store |-> out.store, err |-> out.err]
    ELSE IF call.op = "AddPoll" THEN PollCache_AddPoll(call.seen, call.arg)
    ELSE VotesCache_AddVote(call.seen, call.arg)

SetsSoFar == Cardinality({c \in DOMAIN running : running[c].setAt > 0})

BeginCall(c, call) ==
    /\ c \notin DOMAIN running
    /\ running' = Put(running, c, [op |-> call.op, arg |-> call.arg, pc |-> "get",
                                   seen |-> EmptyStore, err |-> FALSE, setAt |-> 0])
    /\ UNCHANGED <<backend, Voters, voterRedis, pollRedis, votesRedis, resp, counterVars, todoVars>>

\* the read (GetVoter, GetPoll, GetVote) and the tests on what it returned
CallGet(c) ==
    /\ c \in DOMAIN running
    /\ running[c].pc = "get"
    /\ LET call == [running[c] EXCEPT !.seen = Seen(StoreNow(running[c]), CallKey(running[c]))]
           out == CallOutcome(call)
       IN  IF out.err
           THEN /\ running' = Put(running, c, [call EXCEPT !.pc = "done", !.err = TRUE])
                /\ resp' = StoreResp(call.op, <<call.arg>>, TRUE)
           ELSE /\ running' = Put(running, c, [call EXCEPT !.pc = "set"])
                /\ UNCHANGED resp
    /\ UNCHANGED <<backend, Voters, voterRedis, pollRedis, votesRedis, counterVars, todoVars>>

\* the JSONSet and the return
CallSet(c) ==
    /\ c \in DOMAIN running
    /\ running[c].pc = "set"
    /\ LET call == running[c]
           key == CallKey(call)
           doc == CallOutcome(call).store[key]
       IN  /\ running' = Put(running, c, [call EXCEPT !.pc = "done", !.setAt = SetsSoFar + 1])
           /\ resp' = StoreResp(call.op, <<call.arg>>, FALSE)
           /\ IF CallStore(call) = "poll"
              THEN pollRedis' = JSONSet(pollRedis, key, doc) /\ UNCHANGED <<voterRedis, votesRedis>>
              ELSE IF CallStore(call) = "votes"
              THEN votesRedis' = JSONSet(votesRedis, key, doc) /\ UNCHANGED <<voterRedis, pollRedis>>
              ELSE voterRedis' = JSONSet(voterRedis, key, doc) /\ UNCHANGED <<pollRedis, votesRedis>>
    /\ UNCHANGED <<backend, Voters, counterVars, todoVars>>

\* voter 1 is stored or not when the two calls start
InitSideBySide ==
    /\ backend = "redis"
    /\ Voters = EmptyStore
    /\ voterRedis \in {EmptyStore,
                       VoterCache_AddVoter(EmptyStore, NewVoter(1, "Nisarg", "Patel")).store}
    /\ pollRedis = EmptyStore
    /\ votesRedis = EmptyStore
    /\ resp = StoreResp("boot", << >>, FALSE)
    /\ CountersAtBoot
    /\ TodoNotRun
    /\ running = EmptyStore

NextSideBySide ==
    \/ \E c \in Callers, call \in SideCalls : BeginCall(c, call)
    \/ \E c \in Callers : CallGet(c)
    \/ \E c \in Callers : CallSet(c)

SpecSideBySide == InitSideBySide /\ [][NextSideBySide]_vars

\* ------------------------------------------------------------ the counters under requests side by side
\* The middleware of a service (the same code in the voter, poll and votes
\* services) around requests that are handled side by side.  Nothing guards the
\* counters: va.totalCalls++, va.errorCalls++ and va.totalRequestTime +=
\* duration are each a read of the field and a write of the new value, and a
\* step is one such read or write.  A request comes with the status its
\* handler writes and the time it takes; at most MaxCalls requests are taken.
RequestStatuses == {StatusOK, StatusNotFound}

\* an increment that adds two
Incremented_ByTwo(read) == read + 2

\* the value x++ writes after reading x
Incremented(read) == read + 1

InFlight == DOMAIN running

NoneServedYet == [requests |-> 0, errors |-> 0, time |-> 0]

Request(pc, status, duration, read) ==
    [op |-> "request", pc |-> pc, status |-> status, duration |-> duration, read |-> read]

At(c, pc) == c \in DOMAIN running /\ running[c].op = "request" /\ running[c].pc = pc

Goes(c, pc, read) ==
    running' = Put(running, c, Request(pc, running[c].status, running[c].duration, read))

\* the request enters the middleware
TakeRequest(c, status, duration) ==
    /\ c \notin DOMAIN running
    /\ served.requests + Cardinality(InFlight) < MaxCalls
    /\ running' = Put(running, c, Request("readCalls", status, duration, 0))
    /\ UNCHANGED <<backend, Voters, voterRedis, pollRedis, votesRedis, resp, counterVars, todoVars>>

\* va.totalCalls++, the read
ReadTotalCalls(c) ==
    /\ At(c, "readCalls")
    /\ Goes(c, "writeCalls", va.totalCalls)
    /\ UNCHANGED <<backend, Voters, voterRedis, pollRedis, votesRedis, resp, counterVars, todoVars>>

\* va.totalCalls++, the write; c.Next() follows and writes the status
WriteTotalCalls(c) ==
    /\ At(c, "writeCalls")
    /\ va' = [va EXCEPT !.totalCalls = Incremented(running[c].read)]
    /\ Goes(c, IF running[c].status >= 400 THEN "readErrors" ELSE "readTime", 0)
    /\ UNCHANGED <<backend, Voters, voterRedis, pollRedis, votesRedis, resp, served, todoVars>>

\* va.errorCalls++, the read
ReadErrorCalls(c) ==
    /\ At(c, "readErrors")
    /\ Goes(c, "writeErrors", va.errorCalls)
    /\ UNCHANGED <<backend, Voters, voterRedis, pollRedis, votesRedis, resp, counterVars, todoVars>>

\* va.errorCalls++, the write
WriteErrorCalls(c) ==
    /\ At(c, "writeErrors")
    /\ va' = [va EXCEPT !.errorCalls = Incremented(running[c].read)]
    /\ Goes(c, "readTime", 0)
    /\ UNCHANGED <<backend, Voters, voterRedis, pollRedis, votesRedis, resp, served, todoVars>>

\* va.totalRequestTime += duration, the read
ReadRequestTime(c) ==
    /\ At(c, "readTime")
    /\ Goes(c, "writeTime", va.totalRequestTime)
    /\ UNCHANGED <<backend, Voters, voterRedis, pollRedis, votesRedis, resp, counterVars, todoVars>>

\* va.totalRequestTime += duration, the write; the request is answered
WriteRequestTime(c) ==
    /\ At(c, "writeTime")
    /\ va' = [va EXCEPT !.totalRequestTime = running[c].read + running[c].duration]
    /\ served' = [requests |-> served.requests + 1,
                  errors |-> served.errors + (IF running[c].status >= 400 THEN 1 ELSE 0),
                  time |-> served.time + running[c].duration]
    /\ running' = Remove(running, c)
    /\ resp' = Resp("request", <<c>>, running[c].status, << >>)
    /\ UNCHANGED <<backend, Voters, voterRedis, pollRedis, votesRedis, todoVars>>

InitCounters ==
    /\ backend = "redis"
    /\ Voters = EmptyStore
    /\ voterRedis = EmptyStore
    /\ pollRedis = EmptyStore
    /\ votesRedis = EmptyStore
    /\ resp = Boot
    /\ va = NewVotesHandler
    /\ served = NoneServedYet
    /\ TodoNotRun
    /\ running = EmptyStore

NextCounters ==
    \/ \E c \in Callers, status \in RequestStatuses, duration \in Durations :
          TakeRequest(c, status, duration)
    \/ \E c \in Callers : ReadTotalCalls(c)
    \/ \E c \in Callers : WriteTotalCalls(c)
    \/ \E c \in Callers : ReadErrorCalls(c)
    \/ \E c \in Callers : WriteErrorCalls(c)
    \/ \E c \in Callers : ReadRequestTime(c)
    \/ \E c \in Callers : WriteRequestTime(c)

SpecCounters == InitCounters /\ [][NextCounters]_vars

\* ------------------------------------------------------------ two handles on one file
\* Two handles made by New on the same database file, each with its own
\* toDoMap, their operations side by side.  Nothing locks the file: a step is
\* one read of the file (the os.ReadFile of loadDB) or one write of the file
\* (the os.WriteFile of saveDB), and what a handle does between its read and
\* its write it does on what it read.  ChangeItemDoneStatus is the read of its
\* GetItem, the read of its UpdateItem and the write of its UpdateItem.  A
\* handle carries the files its reads returned (seenGet, seen) until its next
\* call.  At most MaxTodoCalls calls are made.
MaxTodoCalls == 3

FirstItem == [Id |-> 1, Title |-> "sample item", IsDone |-> FALSE]
SecondItem == [Id |-> 2, Title |-> "sample item", IsDone |-> FALSE]

\* the files earlier runs of the tool may have left
FilesLeft ==
    { initDB, JSONArray(<<MarshalItem(FirstItem)>>),
      JSONArray(<<MarshalItem(FirstItem), MarshalItem(SecondItem)>>) }

TodoCall(op, id, item, value) == [op |-> op, id |-> id, item |-> item, value |-> value]

NoTodoCall == TodoCall("New", 0, ZeroToDoItem, FALSE)

Rewritten(id) == [Id |-> id, Title |-> "buy milk", IsDone |-> FALSE]

Mutations ==
    {TodoCall("AddItem", id, Rewritten(id), FALSE) : id \in ItemIDs}
        \cup {TodoCall("UpdateItem", id, Rewritten(id), FALSE) : id \in ItemIDs}
        \cup {TodoCall("DeleteItem", id, ZeroToDoItem, FALSE) : id \in ItemIDs}

Reads ==
    {TodoCall("GetItem", id, ZeroToDoItem, FALSE) : id \in ItemIDs}
        \cup {TodoCall("GetAllItems", 0, ZeroToDoItem, FALSE)}

Handle(m, pc, call, seenGet, seen, error, calls) ==
    [op |-> "todo", toDoMap |-> m, pc |-> pc, call |-> call, seenGet |-> seenGet,
     seen |-> seen, error |-> error, calls |-> calls]

CallsMade == running[1].calls + running[2].calls

\* the call of a handle on the file it read, with the map it holds
OnFile(call, file, m, order) ==
    CASE call.op = "AddItem" -> ToDo_AddItem(file, m, call.item, order)
      [] call.op = "DeleteItem" -> ToDo_DeleteItem(file, m, call.id, order)
      [] call.op \in {"UpdateItem", "ChangeItemDoneStatus"} ->
             ToDo_UpdateItem(file, m, call.item, order)

SharedRest == UNCHANGED <<backend, Voters, voterRedis, pollRedis, votesRedis, counterVars, toDoMap>>

\* GetItem or GetAllItems: one read of the file
HandleReads(c, call, order) ==
    /\ running[c].pc = "idle"
    /\ CallsMade < MaxTodoCalls
    /\ LET h == running[c]
           out == IF call.op = "GetItem" THEN ToDo_GetItem(dbFile, h.toDoMap, call.id)
                  ELSE ToDo_GetAllItems(dbFile, h.toDoMap, order)
           result == IF call.op = "GetItem" THEN <<out.item>> ELSE out.toDoList
       IN  /\ running' = [running EXCEPT ![c] =
                  Handle(out.toDoMap, "idle", call, NoFile, dbFile, out.error, h.calls + 1)]
           /\ resp' = TodoResp(call.op, <<c, call.id>>, out.error, result)
    /\ UNCHANGED dbFile
    /\ SharedRest

\* ChangeItemDoneStatus, its GetItem: one read of the file
ChangeGetsItem(c, id, value) ==
    /\ running[c].pc = "idle"
    /\ CallsMade < MaxTodoCalls
    /\ LET h == running[c]
           got == ToDo_GetItem(dbFile, h.toDoMap, id)
           call == TodoCall("ChangeItemDoneStatus", id,
                            [got.item EXCEPT !.IsDone = value], value)
       IN  IF got.error # NoError
           THEN /\ running' = [running EXCEPT ![c] =
                       Handle(got.toDoMap, "idle", call, dbFile, NoFile, got.error, h.calls + 1)]
                /\ resp' = TodoResp(call.op, <<c, id>>, got.error, << >>)
           ELSE /\ running' = [running EXCEPT ![c] =
                       Handle(got.toDoMap, "load", call, dbFile, NoFile, NoError, h.calls + 1)]
                /\ UNCHANGED resp
    /\ UNCHANGED dbFile
    /\ SharedRest

\* the loadDB of a mutation and the test that follows it: one read of the file
Loads(c, call, order, calls) ==
    /\ LET h == running[c]
           out == OnFile(call, dbFile, h.toDoMap, order)
       IN  IF out.error # NoError
           THEN /\ running' = [running EXCEPT ![c] =
                       Handle(out.toDoMap, "idle", call, h.seenGet, dbFile, out.error, calls)]
                /\ resp' = TodoResp(call.op, <<c, call.id>>, out.error, << >>)
           ELSE /\ running' = [running EXCEPT ![c] =
                       Handle(loadDB(dbFile, h.toDoMap).toDoMap, "save", call, h.seenGet,
                              dbFile, NoError, calls)]
                /\ UNCHANGED resp
    /\ UNCHANGED dbFile
    /\ SharedRest

\* AddItem, UpdateItem or DeleteItem is called and reads the file
MutationLoads(c, call, order) ==
    /\ running[c].pc = "idle"
    /\ CallsMade < MaxTodoCalls
    /\ Loads(c, call, order, running[c].calls + 1)

\* ChangeItemDoneStatus, the loadDB of its UpdateItem
ChangeLoads(c, order) ==
    /\ running[c].pc = "load"
    /\ Loads(c, running[c].call, order, running[c].calls)

\* the saveDB of a mutation: one write of the whole file
Saves(c, order) ==
    /\ running[c].pc = "save"
    /\ LET h == running[c]
           out == OnFile(h.call, h.seen, h.toDoMap, order)
       IN  /\ dbFile' = out.file
           /\ running' = [running EXCEPT ![c] =
                  Handle(out.toDoMap, "idle", h.call, h.seenGet, h.seen, out.error, h.calls)]
           /\ resp' = TodoResp(h.call.op, <<c, h.call.id>>, out.error, << >>)
    /\ SharedRest

InitTodoShared ==
    /\ backend = "todo"
    /\ Voters = EmptyStore
    /\ voterRedis = EmptyStore
    /\ pollRedis = EmptyStore
    /\ votesRedis = EmptyStore
    /\ CountersAtBoot
    /\ dbFile \in FilesLeft
    /\ toDoMap = EmptyStore
    /\ running = [c \in Callers |->
           Handle(New(dbFile).toDoMap, "idle", NoTodoCall, NoFile, NoFile, NoError, 0)]
    /\ resp = TodoResp("New", << >>, NoError, << >>)

NextTodoShared ==
    \/ \E c \in Callers, call \in Reads, order \in Orders(ItemIDs) : HandleReads(c, call, order)
    \/ \E c \in Callers, id \in ItemIDs : ChangeGetsItem(c, id, TRUE)
    \/ \E c \in Callers, call \in Mutations, order \in Orders(ItemIDs) :
          MutationLoads(c, call, order)
    \/ \E c \in Callers, order \in Orders(ItemIDs) : ChangeLoads(c, order)
    \/ \E c \in Callers, order \in Orders(ItemIDs) : Saves(c, order)

SpecTodoShared == InitTodoShared /\ [][NextTodoShared]_vars

\* ------------------------------------------------------------ what a caller can observe
IsAddVote(r) == r.op = "AddVote"
IsDeleteVote(r) == r.op = "DeleteVote"

\* the remote calls of response r to the given endpoint
CallsTo(r, what) == {i \in DOMAIN r.remote : r.remote[i].call = what}

AppendSent(r) == CallsTo(r, "POST /voters/:id/polls/:pollId") # {}
AppendStatus(r) ==
    r.remote[CHOOSE i \in CallsTo(r, "POST /voters/:id/polls/:pollId") : TRUE].status
RemovalSent(r) == CallsTo(r, "DELETE /voters/:id/polls/:pollId") # {}
RemovalStatus(r) ==
    r.remote[CHOOSE i \in CallsTo(r, "DELETE /voters/:id/polls/:pollId") : TRUE].status
FetchFailed(r) ==
    \E i \in DOMAIN r.remote :
        /\ r.remote[i].call \in {"GET /voters", "GET /polls"}
        /\ r.remote[i].status = TransportFailure

\* the vote an AddVote request asks to store: the body under the path's id
RequestedVote(r) == [r.args[2] EXCEPT !.VoteID = r.args[1]]

VoterExists(r, id) == ~VoterCache_GetVoter(r, id).err
PollExists(r, id) == ~PollCache_GetPoll(r, id).err
OptionExists(r, id, optionId) == ~PollCache_GetPollOption(r, id, optionId).err
VoteExists(r, id) == ~VotesCache_GetVote(r, id).err
HasPollEntry(h, pollID) == \E i \in DOMAIN h : h[i].PollID = pollID
HistoryOf(r, voterID) == VoterCache_GetVoterHistory(r, voterID).history

\* the references of vote all exist in the stores
ReferencesExist(rvoter, rpoll, vote) ==
    /\ VoterExists(rvoter, vote.VoterID)
    /\ PollExists(rpoll, vote.PollID)
    /\ OptionExists(rpoll, vote.PollID, vote.VoteValue)

\* ------------------------------------------------------------ C1
\* C1: AddVote stores a vote only if the voter, the poll and the poll's option
\* it names exist when it validates and both list fetches succeed; in every
\* other case it answers NotFound, leaves the vote store (and the voter store)
\* as it was and sends no history-append call.
C1_AddVoteValidatesReferences ==
    [][IsAddVote(resp') =>
         LET vote == RequestedVote(resp')
         IN  (FetchFailed(resp') \/ ~ReferencesExist(voterRedis, pollRedis, vote)) =>
                 /\ resp'.status = StatusNotFound
                 /\ votesRedis' = votesRedis
                 /\ voterRedis' = voterRedis
                 /\ ~AppendSent(resp')]_vars

\* an AddVote refused although voter and poll exist and both fetches succeeded:
\* the poll has no such option
C1_Witness_OptionAbsent ==
    /\ IsAddVote(resp)
    /\ resp.status = StatusNotFound
    /\ ~FetchFailed(resp)
    /\ VoterExists(voterRedis, RequestedVote(resp).VoterID)
    /\ PollExists(pollRedis, RequestedVote(resp).PollID)
    /\ ~OptionExists(pollRedis, RequestedVote(resp).PollID, RequestedVote(resp).VoteValue)

\* ------------------------------------------------------------ C2
\* C2: after an AddVote that returned success (requests one at a time, no
\* transport failure), the history of the vote's voter has an entry for the
\* vote's poll.
C2_SuccessfulVoteIsInHistory ==
    (IsAddVote(resp) /\ resp.status = StatusOK) =>
        HasPollEntry(HistoryOf(voterRedis, RequestedVote(resp).VoterID),
                     RequestedVote(resp).PollID)

\* a successful AddVote whose append the voter service accepted
C2_Witness_Appended ==
    /\ IsAddVote(resp)
    /\ resp.status = StatusOK
    /\ AppendSent(resp)
    /\ AppendStatus(resp) = StatusOK

\* ------------------------------------------------------------ C3
\* C3: when the history append of AddVote does not succeed (transport failure
\* or an error status), the inserted vote stays in the vote store and the
\* caller gets a failure response.
C3_FailedAppendIsReported ==
    (IsAddVote(resp) /\ AppendSent(resp) /\ AppendStatus(resp) # StatusOK) =>
        /\ VotesCache_GetVote(votesRedis, resp.args[1]) =
               [err |-> FALSE, vote |-> RequestedVote(resp)]
        /\ resp.status >= StatusBadRequest

\* ------------------------------------------------------------ C4
\* C4: when the removal of the poll entry from the voter's history fails
\* (transport failure or an error status), the vote record stays in the vote
\* store and DeleteVote returns an error.
C4_FailedRemovalKeepsVote ==
    (IsDeleteVote(resp) /\ RemovalSent(resp) /\ RemovalStatus(resp) # StatusOK) =>
        /\ VoteExists(votesRedis, resp.args[1])
        /\ resp.status >= StatusBadRequest

\* ------------------------------------------------------------ C5
\* C5: an AddVote whose id is already a key of the vote store, with existing
\* voter, poll and option, is answered Conflict; the vote store is unchanged
\* (the stored vote keeps its fields) and no history-append call is sent.
C5_DuplicateVoteIdConflicts ==
    [][(/\ IsAddVote(resp')
        /\ VoteExists(votesRedis, resp'.args[1])
        /\ ~FetchFailed(resp')
        /\ ReferencesExist(voterRedis, pollRedis, RequestedVote(resp'))) =>
           /\ resp'.status = StatusConflict
           /\ votesRedis' = votesRedis
           /\ voterRedis' = voterRedis
           /\ ~AppendSent(resp')]_vars

\* a refused AddVote that asked for other fields than the stored vote has
C5_Witness_DifferentVoteRefused ==
    /\ IsAddVote(resp)
    /\ resp.status = StatusConflict
    /\ VoteExists(votesRedis, resp.args[1])
    /\ VotesCache_GetVote(votesRedis, resp.args[1]).vote # RequestedVote(resp)

OnePerPollID(h) == \A i, j \in DOMAIN h : h[i].PollID = h[j].PollID => i = j
\* option list opts has at most one entry per PollOptionID
OnePerPollOptionID(opts) ==
    \A i, j \in DOMAIN opts : opts[i].PollOptionID = opts[j].PollOptionID => i = j

\* GetVoterHistory(voterID) of the voter service that takes the requests
ServiceGetVoterHistory(voterID) ==
    IF backend = "memory" THEN VoterList_GetVoterHistory(Voters, voterID)
    ELSE VoterCache_GetVoterHistory(voterRedis, voterID)

\* the history the voter service returns for the voter of the last request
HistoryOfRequestedVoter == ServiceGetVoterHistory(resp.args[1]).history
RequestedVoterExists == ~ServiceGetVoterHistory(resp.args[1]).err

\* ------------------------------------------------------------ C7
\* C7: in every state the voter service (either backend) and the poll service
\* reach through their requests, each voter's VoteHistory has at most one entry
\* per PollID and each poll's PollOptions at most one entry per PollOptionID.
C7_OneEntryPerId ==
    /\ \A voter \in VoterList_GetAllVoters(Voters) : OnePerPollID(voter.VoteHistory)
    /\ \A voter \in VoterCache_GetAllVoters(voterRedis) : OnePerPollID(voter.VoteHistory)
    /\ \A poll \in PollCache_GetAllPolls(pollRedis) : OnePerPollOptionID(poll.PollOptions)

\* a second entry for a poll was asked of a voter whose history is full, and refused
C7_Witness_RepeatRefused ==
    /\ backend = "memory"
    /\ resp.op = "AddVoterPoll"
    /\ resp.status = StatusBadRequest
    /\ Len(HistoryOfRequestedVoter) = MaxPollID + 1

\* ------------------------------------------------------------ C8
\* C8: an AddVoterPoll(voterID, pollID) sent for an existing voter fails and
\* leaves the voter's history as it was when the history has an entry with
\* pollID; when it has none the request succeeds and the GetVoterHistory that
\* follows returns an entry with pollID and every entry returned before.
C8_AddVoterPollAppends ==
    [][(/\ resp'.op = "AddVoterPoll"
        /\ ~ServiceGetVoterHistory(resp'.args[1]).err) =>
           LET before == ServiceGetVoterHistory(resp'.args[1]).history
               got == ServiceGetVoterHistory(resp.args[1])'
           IN  IF HasPollEntry(before, resp'.args[2])
               THEN /\ resp'.status = StatusBadRequest
                    /\ ~got.err
                    /\ got.history = before
               ELSE /\ resp'.status = StatusOK
                    /\ ~got.err
                    /\ HasPollEntry(got.history, resp'.args[2])
                    /\ \A i \in DOMAIN before :
                          \E j \in DOMAIN got.history : got.history[j] = before[i]]_vars

\* an entry was added to a history of the document backend that had one already
C8_Witness_SecondEntryAdded ==
    /\ backend = "redis"
    /\ resp.op = "AddVoterPoll"
    /\ resp.status = StatusOK
    /\ RequestedVoterExists
    /\ Len(HistoryOfRequestedVoter) = 2
    /\ HasPollEntry(HistoryOfRequestedVoter, resp.args[2])

\* ------------------------------------------------------------ what a store call did
IsStoreAdd(r) ==
    r.op \in {"VoterList.AddVoter", "VoterCache.AddVoter", "PollCache.AddPoll",
              "VotesCache.AddVote"}

\* the id of entity E as the store called by op keys it
EntityID(op, E) ==
    CASE op \in {"VoterList.AddVoter", "VoterCache.AddVoter"} -> E.VoterID
      [] op = "PollCache.AddPoll" -> E.PollID
      [] op = "VotesCache.AddVote" -> E.VoteID

\* Get(id) of the store called by op: whether it failed and the entity it returned
StoreGet(op, id) ==
    CASE op = "VoterList.AddVoter" ->
            [err |-> VoterList_GetVoter(Voters, id).err,
             entity |-> VoterList_GetVoter(Voters, id).voter]
      [] op = "VoterCache.AddVoter" ->
            [err |-> VoterCache_GetVoter(voterRedis, id).err,
             entity |-> VoterCache_GetVoter(voterRedis, id).voter]
      [] op = "PollCache.AddPoll" ->
            [err |-> PollCache_GetPoll(pollRedis, id).err,
             entity |-> PollCache_GetPoll(pollRedis, id).poll]
      [] op = "VotesCache.AddVote" ->
            [err |-> VotesCache_GetVote(votesRedis, id).err,
             entity |-> VotesCache_GetVote(votesRedis, id).vote]

\* Get of the id of the entity the last Add was given
GetOfLastAdded == StoreGet(resp.op, EntityID(resp.op, resp.args[1]))

\* ------------------------------------------------------------ C9
\* C9: in each store (voters in memory and in documents, polls, votes) an
\* Add(E) whose id is no key returns no error, and the Get(E.id) that follows
\* returns no error and an entity equal to E in every field.
C9_AddThenGetReturnsEntity ==
    [][(/\ IsStoreAdd(resp')
        /\ StoreGet(resp'.op, EntityID(resp'.op, resp'.args[1])).err) =>
           /\ ~resp'.err
           /\ ~GetOfLastAdded'.err
           /\ GetOfLastAdded'.entity = resp'.args[1]]_vars

\* the document backend took a voter whose history repeats a poll
C9_Witness_StoredWithHistory ==
    /\ resp.op = "VoterCache.AddVoter"
    /\ ~resp.err
    /\ Len(resp.args[1].VoteHistory) = MaxSliceLen
    /\ ~OnePerPollID(resp.args[1].VoteHistory)
    /\ DOMAIN voterRedis = {VoterKey(id) : id \in VoterIDs}

\* ------------------------------------------------------------ C10
\* C10: in each store an Add(E) whose id is a key returns the already-exists
\* error and changes no entry: the entity under that id keeps every field,
\* whatever E's other fields are, and so does every other entry.
C10_AddExistingIdFails ==
    [][(/\ IsStoreAdd(resp')
        /\ ~StoreGet(resp'.op, EntityID(resp'.op, resp'.args[1])).err) =>
           /\ resp'.err
           /\ GetOfLastAdded' = StoreGet(resp'.op, EntityID(resp'.op, resp'.args[1]))
           /\ Voters' = Voters
           /\ voterRedis' = voterRedis
           /\ pollRedis' = pollRedis
           /\ votesRedis' = votesRedis]_vars

\* a poll was refused whose fields differ from those of the stored poll
C10_Witness_DifferentPollRefused ==
    /\ resp.op = "PollCache.AddPoll"
    /\ resp.err
    /\ ~GetOfLastAdded.err
    /\ GetOfLastAdded.entity # resp.args[1]
    /\ GetOfLastAdded.entity.PollOptions # resp.args[1].PollOptions
    /\ Cardinality(DOMAIN pollRedis) = 2

\* ------------------------------------------------------------ C11
IsStoreDelete(r) ==
    r.op \in {"VoterList.DeleteVoter", "VoterCache.DeleteVoter", "PollCache.DeletePoll",
              "VotesCache.DeleteVote"}

\* the Add of the store that op belongs to, by which StoreGet names the store
AddOpOf(op) ==
    CASE op \in {"VoterList.AddVoter", "VoterList.DeleteVoter", "VoterList.UpdateVoter"}
            -> "VoterList.AddVoter"
      [] op \in {"VoterCache.AddVoter", "VoterCache.DeleteVoter", "VoterCache.UpdateVoter"}
            -> "VoterCache.AddVoter"
      [] op \in {"PollCache.AddPoll", "PollCache.DeletePoll"} -> "PollCache.AddPoll"
      [] op \in {"VotesCache.AddVote", "VotesCache.DeleteVote"} -> "VotesCache.AddVote"

\* every id a store of this model is called with
StoreIDs == VoterIDs \cup PollIDs \cup VoteIDs

\* Get of the id the last Delete was given, in the store it was called on
GetOfLastDeleted == StoreGet(AddOpOf(resp.op), resp.args[1])

\* C11: in each store a Delete(id) of an id that is no key returns the error
\* and changes nothing; a Delete(id) of a key returns no error, leaves every
\* other entry as it was, and the Get(id) that follows returns the error.
C11_DeleteRemovesExactlyOne ==
    [][IsStoreDelete(resp') =>
          IF StoreGet(AddOpOf(resp'.op), resp'.args[1]).err
          THEN /\ resp'.err
               /\ Voters' = Voters
               /\ voterRedis' = voterRedis
               /\ pollRedis' = pollRedis
               /\ votesRedis' = votesRedis
          ELSE /\ ~resp'.err
               /\ GetOfLastDeleted'.err
               /\ \A id \in StoreIDs \ {resp'.args[1]} :
                     StoreGet(AddOpOf(resp.op), id)' = StoreGet(AddOpOf(resp'.op), id)
               /\ Cardinality(DOMAIN Voters') + Cardinality(DOMAIN voterRedis')
                    + Cardinality(DOMAIN pollRedis') + Cardinality(DOMAIN votesRedis')
                  = Cardinality(DOMAIN Voters) + Cardinality(DOMAIN voterRedis)
                    + Cardinality(DOMAIN pollRedis) + Cardinality(DOMAIN votesRedis) - 1]_vars

\* a voter document was deleted and the other voter's document is still there
C11_Witness_OneOfTwoDeleted ==
    /\ resp.op = "VoterCache.DeleteVoter"
    /\ ~resp.err
    /\ GetOfLastDeleted.err
    /\ Cardinality(DOMAIN voterRedis) = MaxVoterID - 1
    /\ \E id \in VoterIDs : ~VoterCache_GetVoter(voterRedis, id).err

\* ------------------------------------------------------------ C12
IsStoreUpdate(r) == r.op \in {"VoterList.UpdateVoter", "VoterCache.UpdateVoter"}

\* Get of the id of the voter the last Update was given, in the store it was called on
GetOfLastUpdated == StoreGet(AddOpOf(resp.op), resp.args[1].VoterID)

\* C12: in both voter stores an UpdateVoter whose id is no key returns the
\* error, and every store is what it was before the call: no entry is created
\* and none is changed.
C12_UpdateAbsentChangesNothing ==
    [][(/\ IsStoreUpdate(resp')
        /\ StoreGet(AddOpOf(resp'.op), resp'.args[1].VoterID).err) =>
           /\ resp'.err
           /\ GetOfLastUpdated'.err
           /\ Voters' = Voters
           /\ voterRedis' = voterRedis
           /\ pollRedis' = pollRedis
           /\ votesRedis' = votesRedis]_vars

\* an update was refused for an absent voter while the other voter is stored
C12_Witness_AbsentRefused ==
    /\ resp.op = "VoterList.UpdateVoter"
    /\ resp.err
    /\ GetOfLastUpdated.err
    /\ Voters # EmptyStore

\* ------------------------------------------------------------ C13
\* C13: in both voter stores an UpdateVoter whose id is a key returns no
\* error; the stored voter then has the supplied FirstName and LastName and
\* the VoterID and VoteHistory it had before, whatever VoteHistory the
\* supplied value carries, and every other voter is as it was.
C13_UpdateWritesNamesOnly ==
    [][(/\ IsStoreUpdate(resp')
        /\ ~StoreGet(AddOpOf(resp'.op), resp'.args[1].VoterID).err) =>
           LET before == StoreGet(AddOpOf(resp'.op), resp'.args[1].VoterID).entity
           IN  /\ ~resp'.err
               /\ ~GetOfLastUpdated'.err
               /\ GetOfLastUpdated'.entity =
                     [VoterID |-> before.VoterID,
                      FirstName |-> resp'.args[1].FirstName,
                      LastName |-> resp'.args[1].LastName,
                      VoteHistory |-> before.VoteHistory]
               /\ \A id \in VoterIDs \ {resp'.args[1].VoterID} :
                     StoreGet(AddOpOf(resp.op), id)' = StoreGet(AddOpOf(resp'.op), id)
               /\ DOMAIN Voters' = DOMAIN Voters
               /\ DOMAIN voterRedis' = DOMAIN voterRedis]_vars

\* a voter was renamed by a value carrying another history, beside another voter
C13_Witness_RenamedKeepsHistory ==
    /\ resp.op = "VoterCache.UpdateVoter"
    /\ ~resp.err
    /\ GetOfLastUpdated.entity.FirstName = resp.args[1].FirstName
    /\ GetOfLastUpdated.entity.VoteHistory # resp.args[1].VoteHistory
    /\ GetOfLastUpdated.entity.VoteHistory # << >>
    /\ Cardinality(DOMAIN voterRedis) = MaxVoterID

\* ------------------------------------------------------------ C14
\* the errors by which a store reports that a parent or a sub-entity is absent
NotFoundErrors ==
    {"voter does not exist", "voter poll not found",
     "poll does not exist", "poll option not found"}

\* out is the result of a reading operation that failed with a not-found error
ReadNotFound(out) == out.err /\ out.error \in NotFoundErrors
\* out is the result of a writing operation that failed with a not-found error
\* and left store as it was
WriteNotFound(out, store) ==
    out.err /\ out.error \in NotFoundErrors /\ out.store = store

\* C14: in every state the services reach, for the voter histories of both
\* backends and for the poll options: with the parent present and no
\* sub-entity of the given id, GetSub, UpdateSub and DeleteSub return a
\* not-found error; with the parent absent, GetSubAll, GetSub, AddSub,
\* UpdateSub and DeleteSub return a not-found error; and each writing
\* operation that fails so leaves the store unchanged.  (Poll options have no
\* UpdateSub.)
C14_AbsentSubIsNotFound ==
    /\ \A voterID \in VoterIDs, pollID \in PollIDs, now \in Dates :
          /\ VoterList_GetVoter(Voters, voterID).err =>
                /\ ReadNotFound(VoterList_GetVoterHistory(Voters, voterID))
                /\ ReadNotFound(VoterList_GetVoterPoll(Voters, voterID, pollID))
                /\ WriteNotFound(VoterList_AddVoterPoll(Voters, voterID, pollID, now), Voters)
                /\ WriteNotFound(VoterList_UpdateVoterPoll(Voters, voterID, pollID, now), Voters)
                /\ WriteNotFound(VoterList_DeleteVoterPoll(Voters, voterID, pollID), Voters)
          /\ (/\ ~VoterList_GetVoter(Voters, voterID).err
              /\ ~HasPollEntry(VoterList_GetVoter(Voters, voterID).voter.VoteHistory, pollID)) =>
                /\ ReadNotFound(VoterList_GetVoterPoll(Voters, voterID, pollID))
                /\ WriteNotFound(VoterList_UpdateVoterPoll(Voters, voterID, pollID, now), Voters)
                /\ WriteNotFound(VoterList_DeleteVoterPoll(Voters, voterID, pollID), Voters)
          /\ VoterCache_GetVoter(voterRedis, voterID).err =>
                /\ ReadNotFound(VoterCache_GetVoterHistory(voterRedis, voterID))
                /\ ReadNotFound(VoterCache_GetVoterPoll(voterRedis, voterID, pollID))
                /\ WriteNotFound(VoterCache_AddVoterPoll(voterRedis, voterID, pollID, now), voterRedis)
                /\ WriteNotFound(VoterCache_UpdateVoterPoll(voterRedis, voterID, pollID, now), voterRedis)
                /\ WriteNotFound(VoterCache_DeleteVoterPoll(voterRedis, voterID, pollID), voterRedis)
          /\ (/\ ~VoterCache_GetVoter(voterRedis, voterID).err
              /\ ~HasPollEntry(VoterCache_GetVoter(voterRedis, voterID).voter.VoteHistory, pollID)) =>
                /\ ReadNotFound(VoterCache_GetVoterPoll(voterRedis, voterID, pollID))
                /\ WriteNotFound(VoterCache_UpdateVoterPoll(voterRedis, voterID, pollID, now), voterRedis)
                /\ WriteNotFound(VoterCache_DeleteVoterPoll(voterRedis, voterID, pollID), voterRedis)
    /\ \A pollID \in PollIDs, optionID \in OptionIDs, text \in OptionTexts :
          /\ PollCache_GetPoll(pollRedis, pollID).err =>
                /\ ReadNotFound(PollCache_GetPollOptions(pollRedis, pollID))
                /\ ReadNotFound(PollCache_GetPollOption(pollRedis, pollID, optionID))
                /\ WriteNotFound(PollCache_AddPollOption(pollRedis, pollID, optionID, text), pollRedis)
                /\ WriteNotFound(PollCache_DeletePollOption(pollRedis, pollID, optionID), pollRedis)
          /\ (/\ ~PollCache_GetPoll(pollRedis, pollID).err
              /\ \A i \in DOMAIN PollCache_GetPoll(pollRedis, pollID).poll.PollOptions :
                    PollCache_GetPoll(pollRedis, pollID).poll.PollOptions[i].PollOptionID # optionID) =>
                /\ ReadNotFound(PollCache_GetPollOption(pollRedis, pollID, optionID))
                /\ WriteNotFound(PollCache_DeletePollOption(pollRedis, pollID, optionID), pollRedis)

\* the poll service refused to delete an option that a poll with another option lacks
C14_Witness_AbsentOptionRefused ==
    /\ resp.op = "DeletePollOption"
    /\ resp.status = StatusNotFound
    /\ ~PollCache_GetPoll(pollRedis, resp.args[1]).err
    /\ PollCache_GetPoll(pollRedis, resp.args[1]).poll.PollOptions # << >>
    /\ PollCache_GetPollOption(pollRedis, resp.args[1], resp.args[2]).error
         = "poll option not found"

\* ------------------------------------------------------------ C15
\* the slices GetAll of the service that takes the requests can return
ServiceGetAllResults ==
    CASE backend = "memory" -> VoterList_GetAllVoters_Results(Voters)
      [] backend = "redis" -> VoterCache_GetAllVoters_Results(voterRedis)
      [] backend = "poll" -> PollCache_GetAllPolls_Results(pollRedis)

\* Get(id) of the service that takes the requests: whether it failed, and the entity
ServiceGet(id) ==
    CASE backend = "memory" ->
            [err |-> VoterList_GetVoter(Voters, id).err,
             entity |-> VoterList_GetVoter(Voters, id).voter]
      [] backend = "redis" ->
            [err |-> VoterCache_GetVoter(voterRedis, id).err,
             entity |-> VoterCache_GetVoter(voterRedis, id).voter]
      [] backend = "poll" ->
            [err |-> PollCache_GetPoll(pollRedis, id).err,
             entity |-> PollCache_GetPoll(pollRedis, id).poll]

ServiceIDs == IF backend = "poll" THEN PollIDs ELSE VoterIDs

\* slice all lists every stored entity of the service exactly once, and nothing else
ListsEachStoredOnce(all) ==
    /\ Len(all) = Cardinality({id \in ServiceIDs : ~ServiceGet(id).err})
    /\ \A id \in ServiceIDs :
          ~ServiceGet(id).err =>
              Cardinality({i \in DOMAIN all : all[i] = ServiceGet(id).entity}) = 1

\* C15: a DeleteAll request (voters of either backend, polls) succeeds from
\* every state, the empty store included; the GetAll that follows returns the
\* empty sequence, and a GetAll before it returns every stored entity exactly
\* once, in whatever order the keys come.
C15_DeleteAllEmptiesStore ==
    [][resp'.op \in {"DeleteAllVoters", "DeleteAllPolls"} =>
          /\ resp'.status = StatusOK
          /\ ServiceGetAllResults' = {<< >>}
          /\ ServiceGetAllResults # {}
          /\ \A all \in ServiceGetAllResults : ListsEachStoredOnce(all)]_vars

\* the voter service on the document store answered a DeleteAll and holds no voter
C15_Witness_AllDeleted ==
    /\ backend = "redis"
    /\ resp.op = "DeleteAllVoters"
    /\ resp.status = StatusOK
    /\ voterRedis = EmptyStore
    /\ ServiceGetAllResults = {<< >>}

\* ------------------------------------------------------------ C16
\* C16: every request of the voter and poll services that ends in a not-found
\* or already-exists outcome is answered with a 4xx status and never a 5xx
\* one, adding a voter or poll whose id exists and updating a voter whose id
\* is absent included.  (The document store is up and the requests are well
\* formed, so a request of these services fails in no other way.)
C16_StoreErrorsAreClientErrors ==
    resp.status # StatusOK => (resp.status >= 400 /\ resp.status < 500)


\* ------------------------------------------------------------ C17
\* C17: a HealthCheck issued after N requests were handled since boot, E of
\* them answered with a status of 400 or more, reports totalAPICalls = N,
\* totalAPICallsError = E and averageRequestTime = totalRequestTime / N, and
\* an averageRequestTime of 0 when N = 0.  N and E are the counts of served
\* before the HealthCheck is taken up.
IsHealthCheck(r) == r.op = "HealthCheck"

C17_HealthCheckReportsCounts ==
    [][IsHealthCheck(resp') /\ served' # served =>
          LET N == served.requests
              E == served.errors
              body == resp'.body
          IN  /\ body.totalAPICalls = N
              /\ body.totalAPICallsError = E
              /\ body.averageRequestTime =
                     (IF N = 0 THEN 0 ELSE body.totalRequestTime \div N)]_vars

\* ------------------------------------------------------------ observations of the todo tool
\* the items a fresh handle loads from the file, by id
FileItems(file) == loadDB(file, EmptyStore).toDoMap

InDatabase(file, id) == id \in DOMAIN FileItems(file)

\* what GetItem answers in the state (file, m): its error and its item
Answer(file, m, id) ==
    LET got == ToDo_GetItem(file, m, id)
    IN  [error |-> got.error, item |-> got.item]

\* ------------------------------------------------------------ C18
\* C18: one handle, one call after the other.  AddItem(item) on a database
\* with no item succeeds and GetAllItems then returns exactly that item; a
\* successful ChangeItemDoneStatus(id, v) makes GetItem(id).IsDone = v, leaves
\* the item's Id and Title as they were, and leaves what GetItem answers for
\* every other id unchanged.
C18_AddThenListAndChangeStatus ==
    [][/\ (resp'.op = "AddItem" /\ DOMAIN FileItems(dbFile) = {}) =>
              /\ resp'.error = NoError
              /\ \A order \in Orders(ItemIDs) :
                    LET all == ToDo_GetAllItems(dbFile', toDoMap', order)
                    IN  all.error = NoError /\ all.toDoList = <<resp'.args[1]>>
       /\ (resp'.op = "ChangeItemDoneStatus" /\ resp'.error = NoError) =>
              LET id == resp'.args[1]
                  before == Answer(dbFile, toDoMap, id)
                  after == Answer(dbFile', toDoMap', id)
              IN  /\ after.error = NoError
                  /\ after.item.IsDone = resp'.args[2]
                  /\ after.item.Id = before.item.Id
                  /\ after.item.Title = before.item.Title
                  /\ \A other \in ItemIDs \ {id} :
                        Answer(dbFile', toDoMap', other) = Answer(dbFile, toDoMap, other)
      ]_vars

\* a status was changed to FALSE in a database of two items, and the other
\* item is done
C18_Witness_StatusChangedAmongTwo ==
    /\ resp.op = "ChangeItemDoneStatus"
    /\ resp.error = NoError
    /\ resp.args[2] = FALSE
    /\ Cardinality(DOMAIN FileItems(dbFile)) = 2
    /\ ~FileItems(dbFile)[resp.args[1]].IsDone
    /\ \E other \in DOMAIN FileItems(dbFile) : FileItems(dbFile)[other].IsDone

\* ------------------------------------------------------------ C19
\* C19: AddItem with an id that is in the database, and DeleteItem, UpdateItem,
\* GetItem and ChangeItemDoneStatus with an id that is not, return an error
\* and leave the items of the file as they were; GetItem and GetAllItems
\* leave the file as it was.  (One handle at a time on the file.)
Refused(file, r) ==
    \/ r.op = "AddItem" /\ InDatabase(file, r.args[1].Id)
    \/ r.op = "UpdateItem" /\ ~InDatabase(file, r.args[1].Id)
    \/ r.op \in {"DeleteItem", "GetItem", "ChangeItemDoneStatus"}
          /\ ~InDatabase(file, r.args[1])

C19_ErrorsLeaveFileAlone ==
    [][/\ Refused(dbFile, resp') =>
              /\ resp'.error # NoError
              /\ FileItems(dbFile') = FileItems(dbFile)
       /\ resp'.op \in {"GetItem", "GetAllItems"} => dbFile' = dbFile
      ]_vars

\* an UpdateItem for an id that is not stored was answered with an error while
\* the database holds another item
C19_Witness_UpdateOfAbsentRefused ==
    /\ resp.op = "UpdateItem"
    /\ resp.error = ItemMissing
    /\ ~InDatabase(dbFile, resp.args[1].Id)
    /\ DOMAIN FileItems(dbFile) # {}

\* ------------------------------------------------------------ C20
\* C20: after New and after every successful AddItem, UpdateItem, DeleteItem
\* and ChangeItemDoneStatus the file holds a JSON array with one element per
\* stored item, the empty array when no item is left, and loading it gives
\* the items of the handle.
C20_FileHoldsArrayOfItems ==
    (resp.error = NoError
        /\ resp.op \in {"New", "AddItem", "UpdateItem", "DeleteItem", "ChangeItemDoneStatus"}) =>
        /\ dbFile.json = "array"
        /\ Len(dbFile.elems) = Cardinality(DOMAIN FileItems(dbFile))
        /\ (resp.op # "New" => FileItems(dbFile) = toDoMap)

\* ------------------------------------------------------------ C21
\* C21: after any sequence of AddVote and DeleteVote calls the vote store
\* holds at most one vote per (VoterID, PollID) pair: two stored votes of the
\* same voter in the same poll are the same vote.
C21_OneVotePerVoterAndPoll ==
    \A a, b \in VotesCache_GetAllVotes(votesRedis) :
        (a.VoterID = b.VoterID /\ a.PollID = b.PollID) => a.VoteID = b.VoteID

\* ------------------------------------------------------------ C22
\* C22: when the history changes through AddVote and DeleteVote only, a voter's
\* history has an entry for poll P exactly when the vote store holds a vote
\* with that VoterID and PollID P.
VotesOf(r, voterID, pollID) ==
    {vote \in VotesCache_GetAllVotes(r) : vote.VoterID = voterID /\ vote.PollID = pollID}

C22_HistoryMatchesVotes ==
    \A voterID \in AppVoterIDs, pollID \in PollIDs :
        HasPollEntry(HistoryOf(voterRedis, voterID), pollID)
            <=> VotesOf(votesRedis, voterID, pollID) # {}

\* ------------------------------------------------------------ C23
\* C23: also when DeleteVoter, DeletePoll and DeletePollOption requests run
\* between the steps of an AddVote, the voter, the poll and the poll option the
\* vote refers to exist in their stores at the moment AddVote inserts the vote
\* and at the moment it returns success.
AddVoteInserts == AddVoteRunning("insert") /\ AddVoteRunning("history")'
AddVoteReturnsSuccess == AddVoteRunning("history") /\ running' = EmptyStore

C23_ReferencesExistUnderInterleaving ==
    [][/\ AddVoteInserts =>
              ReferencesExist(voterRedis, pollRedis,
                              [running[1].body EXCEPT !.VoteID = running[1].id])
       /\ AddVoteReturnsSuccess =>
              ReferencesExist(voterRedis', pollRedis',
                              [running[1].body EXCEPT !.VoteID = running[1].id])
      ]_vars

\* ------------------------------------------------------------ observations of calls side by side
BothDone == DOMAIN running = Callers /\ \A c \in Callers : running[c].pc = "done"
BothSucceeded == BothDone /\ \A c \in Callers : ~running[c].err
IsAdd(call) == call.op \in {"AddVoter", "AddPoll", "AddVote"}

\* the entity stored under the key of call
StoredFor(call) ==
    IF CallStore(call) = "poll" THEN PollCache_GetPoll(pollRedis, call.arg.PollID).poll
    ELSE IF CallStore(call) = "votes" THEN VotesCache_GetVote(votesRedis, call.arg.VoteID).vote
    ELSE VoterCache_GetVoter(voterRedis, call.arg.VoterID).voter

\* ------------------------------------------------------------ C24
\* C24: when two Add calls for the same id with different values, running side
\* by side on a document store, both return success, the store holds the value
\* of the call that wrote last, and the value of the other call is gone.
C24_LastAddWins ==
    \A c, d \in Callers :
        (/\ BothSucceeded
         /\ IsAdd(running[c]) /\ running[d].op = running[c].op
         /\ running[c].arg # running[d].arg
         /\ running[c].setAt > running[d].setAt) =>
            /\ StoredFor(running[c]) = running[c].arg
            /\ StoredFor(running[d]) # running[d].arg

\* two AddVoter calls for voter 1 with different first names both returned
\* success
C24_Witness_BothAddsSucceeded ==
    /\ BothSucceeded
    /\ running[1].op = "AddVoter" /\ running[2].op = "AddVoter"
    /\ running[1].arg # running[2].arg
    /\ running[1].arg.VoterID = running[2].arg.VoterID

\* ------------------------------------------------------------ C25
\* C25: when UpdateVoter(v) and AddVoterPoll(v.id, p) for the same stored voter
\* run side by side and both return success, the stored voter has the names of
\* v and a history entry for p.
C25_UpdateKeepsConcurrentEntry ==
    \A c, d \in Callers :
        (/\ BothSucceeded
         /\ running[c].op = "UpdateVoter" /\ running[d].op = "AddVoterPoll"
         /\ running[c].arg.VoterID = running[d].arg.voterID) =>
            LET voter == VoterCache_GetVoter(voterRedis, running[c].arg.VoterID).voter
            IN  /\ voter.FirstName = running[c].arg.FirstName
                /\ voter.LastName = running[c].arg.LastName
                /\ HasPollEntry(voter.VoteHistory, running[d].arg.pollID)

\* ------------------------------------------------------------ C26
\* C26: with requests handled side by side the counters are never higher than
\* what was handled: totalCalls is at most the number of requests taken up
\* (answered or still in the middleware), errorCalls at most the number of
\* those whose status is 400 or more, totalRequestTime at most the time of the
\* requests answered.  They can end lower (the witness).
C26_CountersNeverOvercount ==
    /\ va.totalCalls <= served.requests + Cardinality(InFlight)
    /\ va.errorCalls <=
           served.errors + Cardinality({c \in InFlight : running[c].status >= 400})
    /\ va.totalRequestTime <= served.time

\* every request taken has been answered, and each counter is lower than what
\* was handled
C26_Witness_AllThreeUndercount ==
    /\ InFlight = {}
    /\ served.requests = MaxCalls
    /\ va.totalCalls < served.requests
    /\ va.errorCalls < served.errors
    /\ va.totalRequestTime < served.time

ChangeSaves(c) ==
    /\ running[c].pc = "save"
    /\ running[c].call.op = "ChangeItemDoneStatus"
    /\ running'[c].pc = "idle"

ReadsFile(c) ==
    /\ running[c].pc \in {"idle", "load"}
    /\ running'[c] # running[c]

\* C29: an operation's load leaves in the handle's map exactly the items of
\* the file at that moment; GetItem does not report an item that is not in
\* the file it read; the write of a mutation stores, besides the item the
\* mutation is about, only items of the file the mutation read.
C29_MapRebuiltFromFile ==
    [][\A c \in Callers :
          /\ ReadsFile(c) => running'[c].toDoMap = FileItems(dbFile)
          /\ ReadsFile(c) /\ running'[c].call.op = "GetItem"
                 /\ ~InDatabase(dbFile, running'[c].call.id) =>
                 running'[c].error = ItemMissing
          /\ running[c].pc = "save" /\ running'[c].pc = "idle" =>
                 \A j \in ItemIDs \ {running[c].call.id} :
                     InDatabase(dbFile', j) => InDatabase(running[c].seen, j)]_vars

\* ------------------------------------------------------------ C30
\* C30: an UpdateVoterPoll(voterID, pollID) sent for an existing voter
\* succeeds exactly when the voter's history has an entry with pollID, for
\* every pollID and 0 among them; when it fails the history is afterwards
\* what it was, entry by entry.
C30_UpdateVoterPollIffEntry ==
    [][(/\ resp'.op = "UpdateVoterPoll"
        /\ ~ServiceGetVoterHistory(resp'.args[1]).err) =>
           LET before == ServiceGetVoterHistory(resp'.args[1]).history
               got == ServiceGetVoterHistory(resp.args[1])'
           IN  /\ (resp'.status = StatusOK) <=> HasPollEntry(before, resp'.args[2])
               /\ resp'.status # StatusOK => (~got.err /\ got.history = before)]_vars

=============================================================================
